---------------------------- MODULE Spec2Model ----------------------------
(***************************************************************************)
(* Concurrency primitives of lock-learning: Arc/Weak (src/src/arc.rs),     *)
(* Mutex (src/src/mutex.rs), Condvar (src/src/condition_variable.rs) and   *)
(* RwLock (src/src/read_write_lock.rs), each atomic operation of the       *)
(* source being one step of the thread that performs it.  The futex        *)
(* primitives wait / wake_one / wake_all of the atomic_wait crate are      *)
(* modelled by their contract: wait(a, v) parks the caller iff *a = v at   *)
(* the instant of the call, a parked thread leaves by a wake on the same   *)
(* address or spuriously.                                                  *)
(***************************************************************************)
EXTENDS Integers, Naturals, Sequences, FiniteSets, TLC

(***************************************************************************)
(* Bounds of the model.                                                    *)
(***************************************************************************)
\* width in bits of the usize counters of ArcData in the model
UsizeBits == 4
\* largest number of Arc handles, and of Weak handles, ever alive together
MaxHandles == 3

\* width in bits of the u32 words (Mutex.state, Condvar.counter, RwLock.state,
\* RwLock.writer_wake_counter) in the model
U32Bits == 4
\* SPIN_LIMIT of lock_contended, in the model
SpinLimit == 2
\* spurious returns of wait in one run
MaxSpurious == 2
\* notifications one notifier makes in one run
MaxNotify == 2

\* calls of read() / write() one thread makes in one run
MaxCalls == 1

ArcThreads == {"t1", "t2", "t3"}
\* users of the Mutex: threads that push one value each under the lock,
\* threads that wait on the Condvar for the guarded value to reach 100,
\* threads that set it to 123 and notify
Pushers == {"p1", "p2", "p3"}
Waiters == {"w1", "w2"}
Notifiers == {"n1"}
LockThreads == Pushers \cup Waiters \cup Notifiers
\* users of the RwLock: each makes MaxCalls calls, of read() or of write()
RwThreads == {"a", "b", "c"}
\* users of the oneshot channels: each makes MaxCalls calls, of send or of
\* receive, on the Channel or on the StateChannel
ChanThreads == {"c1", "c2", "c3"}
PushVal == [t \in Pushers |-> CASE t = "p1" -> 1 [] t = "p2" -> 2 [] OTHER -> 3]

U32_MOD == 2 ^ U32Bits
U32_MAX == U32_MOD - 1

USIZE_MOD == 2 ^ UsizeBits
USIZE_MAX == USIZE_MOD - 1

VARIABLES
    \* ---- arc.rs : one allocation (ArcData) and the handles to it
    data_ref_count,   \* ArcData.data_ref_count
    alloc_ref_count,  \* ArcData.alloc_ref_count
    arcs,             \* arcs[t]  : number of Arc handles thread t owns
    weaks,            \* weaks[t] : number of Weak handles thread t owns
    apc,              \* apc[t]   : where thread t is inside an Arc/Weak operation
    an,               \* an[t]    : the local n of upgrade / downgrade
    is_unique,        \* is_unique[t] : the local is_unique of get_mut
    gm_call,          \* gm_call[t] : handles besides t's own Arc alive when t called get_mut
    up_ret,           \* what the latest return of Weak::upgrade was: "some" or "null"
    num_drops,        \* NUM_DROPS of the tests: runs of the payload destructor
    num_frees,        \* runs of drop(Box::from_raw(ptr)): frees of the block
    kept_arcs,        \* Arc handles kept alive by their owners, used in no operation
    kept_weaks,       \* Weak handles kept alive by their owners, used in no operation
    uaf,              \* some operation touched a counter of a freed block
    aborted,          \* std::process::abort() was called
    \* ---- mutex.rs, condition_variable.rs : one Mutex, one Condvar, their users
    m_state,          \* Mutex.state
    m_value,          \* Mutex.value, the guarded value
    lpc,              \* lpc[t] : where thread t is
    spin_count,       \* spin_count[t] : the local spin_count of lock_contended
    m_parked,         \* threads parked in wait(&mutex.state, 2)
    tmp,              \* tmp[t] : the Vec as thread t read it at the start of its push
    counter,          \* Condvar.counter
    counter_value,    \* counter_value[t] : the local counter_value of Condvar::wait
    c_parked,         \* threads parked in wait(&condvar.counter, counter_value)
    notify_left,      \* notify_left[t] : notifications thread t still has to make
    notify_kind,      \* notify_kind[t] : "one" (notify_one) or "all" (notify_all), the call under way
    seen,             \* seen[t] : the value the waiter t read when it left its loop
    l_spurious,       \* spurious returns of wait so far
    \* ---- read_write_lock.rs : one RwLock and its users
    rw_state,             \* RwLock.state
    writer_wake_counter,  \* RwLock.writer_wake_counter
    rw_value,             \* RwLock.value, the guarded value
    rpc,                  \* rpc[t] : where thread t is
    rs,                   \* rs[t] : the local s of read / write
    rw,                   \* rw[t] : the local w of write
    s_parked,             \* threads parked in wait(&state, s)
    w_parked,             \* threads parked in wait(&writer_wake_counter, w)
    r_left,               \* r_left[t] : calls of read / write thread t still has to make
    r_seen,               \* r_seen[t] : the value thread t read at the start of its read section
    r_spurious,           \* spurious returns of wait so far
    r_held,               \* ReadGuards obtained earlier and kept alive by their owners
    \* ---- channel.rs : one Channel; state_machine_channel.rs : one StateChannel
    ch_in_use,            \* Channel.in_use
    ch_ready,             \* Channel.ready
    ch_message,           \* Channel.message: "uninit", "partial" (half written) or a message
    st_state,             \* StateChannel.state: "Empty", "Writing", "Ready", "Reading"
    st_message,           \* StateChannel.message, as ch_message
    cpc,                  \* cpc[t] : where thread t is
    c_left,               \* c_left[t] : calls thread t still has to make
    c_got,                \* c_got[t] : what the latest receive of thread t returned
    ch_sends,             \* calls of Channel::send that went on to write
    ch_receives,          \* calls of Channel::receive that went on to read
    st_sends,             \* calls of StateChannel::send that went on to write
    st_receives           \* calls of StateChannel::receive that went on to read

arcVars == <<data_ref_count, alloc_ref_count, arcs, weaks, apc, an, is_unique,
             gm_call, up_ret, num_drops, num_frees, uaf, aborted, kept_arcs,
             kept_weaks>>

lockVars == <<m_state, m_value, lpc, spin_count, m_parked, tmp, counter,
              counter_value, c_parked, notify_left, notify_kind, seen, l_spurious>>

rwVars == <<rw_state, writer_wake_counter, rw_value, rpc, rs, rw, s_parked,
            w_parked, r_left, r_seen, r_spurious, r_held>>

chanVars == <<ch_in_use, ch_ready, ch_message, st_state, st_message, cpc,
              c_left, c_got, ch_sends, ch_receives, st_sends, st_receives>>

vars == <<arcVars, lockVars, rwVars, chanVars>>

\* an operation on the Arc touches neither the locks nor their users
ArcFrame == UNCHANGED <<lockVars, rwVars, chanVars>>
\* a step of a Mutex / Condvar user touches neither the Arc nor the RwLock
LockFrame == UNCHANGED <<arcVars, rwVars, chanVars>>
\* a step of a RwLock user touches neither the Arc nor the Mutex and Condvar
RwFrame == UNCHANGED <<arcVars, lockVars, chanVars>>
\* a step of a channel user touches neither the Arc nor the locks
ChanFrame == UNCHANGED <<arcVars, lockVars, rwVars>>
\* an operation on a handle leaves the handles that are kept where they are
HandlesKept == UNCHANGED <<kept_arcs, kept_weaks>>

RECURSIVE SumOver(_, _)
SumOver(f, S) == IF S = {} THEN 0
                 ELSE LET x == CHOOSE y \in S : TRUE
                      IN  f[x] + SumOver(f, S \ {x})

\* Arc handles alive: owned by some thread and not yet handed to Drop
TotalArcs == SumOver(arcs, ArcThreads)
\* Weak handles alive (the implicit unit is no handle)
TotalWeaks == SumOver(weaks, ArcThreads)

\* every access to a counter goes through ArcData behind ptr
Touch == uaf' = (uaf \/ num_frees > 0)

\* no Mutex, Condvar or user of them exists
LockOff ==
    /\ m_state = 0
    /\ m_value = 0
    /\ lpc = [t \in LockThreads |-> "off"]
    /\ spin_count = [t \in LockThreads |-> 0]
    /\ m_parked = {}
    /\ tmp = [t \in LockThreads |-> <<>>]
    /\ counter = 0
    /\ counter_value = [t \in LockThreads |-> 0]
    /\ c_parked = {}
    /\ notify_left = [t \in LockThreads |-> 0]
    /\ notify_kind = [t \in LockThreads |-> "one"]
    /\ seen = [t \in LockThreads |-> 0]
    /\ l_spurious = 0

\* no RwLock or user of it exists
RwOff ==
    /\ rw_state = 0
    /\ writer_wake_counter = 0
    /\ rw_value = 0
    /\ rpc = <<>>
    /\ rs = <<>>
    /\ rw = <<>>
    /\ s_parked = {}
    /\ w_parked = {}
    /\ r_left = <<>>
    /\ r_seen = <<>>
    /\ r_spurious = 0
    /\ r_held = 0

\* no channel or user of one exists
ChanOff ==
    /\ ch_in_use = FALSE
    /\ ch_ready = FALSE
    /\ ch_message = "uninit"
    /\ st_state = "Empty"
    /\ st_message = "uninit"
    /\ cpc = <<>>
    /\ c_left = <<>>
    /\ c_got = <<>>
    /\ ch_sends = 0
    /\ ch_receives = 0
    /\ st_sends = 0
    /\ st_receives = 0

\* no ArcData exists
ArcOff ==
    /\ data_ref_count = 0
    /\ alloc_ref_count = 0
    /\ arcs = <<>>
    /\ weaks = <<>>
    /\ apc = <<>>
    /\ an = <<>>
    /\ is_unique = <<>>
    /\ gm_call = <<>>
    /\ up_ret = "none"
    /\ num_drops = 0
    /\ num_frees = 0
    /\ uaf = FALSE
    /\ aborted = FALSE
    /\ kept_arcs = 0
    /\ kept_weaks = 0

-----------------------------------------------------------------------------
(* Arc::new : data_ref_count = 1, alloc_ref_count = 1, one Arc, owned by t1 *)
ArcInit ==
    /\ data_ref_count = 1
    /\ alloc_ref_count = 1
    /\ arcs = [t \in ArcThreads |-> IF t = "t1" THEN 1 ELSE 0]
    /\ weaks = [t \in ArcThreads |-> 0]
    /\ apc = [t \in ArcThreads |-> "idle"]
    /\ an = [t \in ArcThreads |-> 0]
    /\ is_unique = [t \in ArcThreads |-> FALSE]
    /\ gm_call = [t \in ArcThreads |-> 0]
    /\ up_ret = "none"
    /\ num_drops = 0
    /\ num_frees = 0
    /\ uaf = FALSE
    /\ aborted = FALSE
    /\ kept_arcs = 0
    /\ kept_weaks = 0

Idle(t) == ~aborted /\ apc[t] = "idle"
At(t, l) == ~aborted /\ apc[t] = l

\* Arc's clone handing out the new Arc without counting it
ArcCloneNoIncrement(t) ==
    /\ Idle(t) /\ arcs[t] > 0
    /\ ArcFrame /\ HandlesKept
    /\ TotalArcs < MaxHandles
    /\ Touch
    /\ arcs' = [arcs EXCEPT ![t] = @ + 1]
    /\ UNCHANGED <<data_ref_count, alloc_ref_count, weaks, apc, an, is_unique,
                   gm_call, num_drops, num_frees, aborted,
                   up_ret>>

\* Arc's clone without the test of the old value: it never aborts
ArcCloneNoAbort(t) ==
    /\ Idle(t) /\ arcs[t] > 0
    /\ ArcFrame /\ HandlesKept
    /\ TotalArcs < MaxHandles
    /\ data_ref_count' = (data_ref_count + 1) % USIZE_MOD
    /\ Touch
    /\ arcs' = [arcs EXCEPT ![t] = @ + 1]
    /\ UNCHANGED <<alloc_ref_count, weaks, apc, an, is_unique, gm_call,
                   num_drops, num_frees, aborted,
                   up_ret>>

(* impl Clone for Arc, lines 171-174 : fetch_add(1); when the old value is *)
(* > MAX / 2 the thread goes on to std::process::abort(), else it returns  *)
(* the new Arc                                                             *)
ArcClone(t) ==
    /\ Idle(t) /\ arcs[t] > 0
    /\ ArcFrame /\ HandlesKept
    /\ TotalArcs < MaxHandles
    /\ data_ref_count' = (data_ref_count + 1) % USIZE_MOD
    /\ Touch
    /\ IF data_ref_count > USIZE_MAX \div 2
          THEN apc' = [apc EXCEPT ![t] = "aborting"] /\ arcs' = arcs
          ELSE apc' = apc /\ arcs' = [arcs EXCEPT ![t] = @ + 1]
    /\ UNCHANGED <<alloc_ref_count, weaks, an, is_unique, gm_call,
                   num_drops, num_frees, aborted,
                   up_ret>>

(* impl Clone for Weak, lines 160-165 : fetch_add(1); when the old value is *)
(* > MAX / 2 the thread goes on to std::process::abort(), else it returns   *)
(* the new Weak                                                             *)
WeakClone(t) ==
    /\ Idle(t) /\ weaks[t] > 0
    /\ ArcFrame /\ HandlesKept
    /\ TotalWeaks < MaxHandles
    /\ alloc_ref_count' = (alloc_ref_count + 1) % USIZE_MOD
    /\ Touch
    /\ IF alloc_ref_count > USIZE_MAX \div 2
          THEN apc' = [apc EXCEPT ![t] = "aborting"] /\ weaks' = weaks
          ELSE apc' = apc /\ weaks' = [weaks EXCEPT ![t] = @ + 1]
    /\ UNCHANGED <<data_ref_count, arcs, an, is_unique, gm_call,
                   num_drops, num_frees, aborted,
                   up_ret>>

(* impl Clone, lines 161 and 172 : std::process::abort() ends every thread *)
ProcessAbort(t) ==
    /\ At(t, "aborting")
    /\ ArcFrame /\ HandlesKept
    /\ aborted' = TRUE
    /\ UNCHANGED <<data_ref_count, alloc_ref_count, arcs, weaks, apc, an,
                   is_unique, gm_call, up_ret, num_drops, num_frees, uaf>>

(* Weak::upgrade, line 41 : let mut n = data_ref_count.load(Relaxed) *)
UpgradeLoad(t) ==
    /\ Idle(t) /\ weaks[t] > 0
    /\ ArcFrame /\ HandlesKept
    /\ TotalArcs < MaxHandles
    /\ an' = [an EXCEPT ![t] = data_ref_count]
    /\ apc' = [apc EXCEPT ![t] = "up_loop"]
    /\ Touch
    /\ UNCHANGED <<data_ref_count, alloc_ref_count, arcs, weaks, is_unique,
                   gm_call, num_drops, num_frees, aborted,
                   up_ret>>

\* the loop body of upgrade with the n == 0 test left out
UpgradeLoopNoZeroTest(t) ==
    /\ At(t, "up_loop")
    /\ ArcFrame /\ HandlesKept
    /\ Touch
    /\ IF data_ref_count = an[t]
          THEN /\ data_ref_count' = (an[t] + 1) % USIZE_MOD
               /\ arcs' = [arcs EXCEPT ![t] = @ + 1]
               /\ apc' = [apc EXCEPT ![t] = "idle"]
               /\ an' = [an EXCEPT ![t] = 0]
               /\ up_ret' = "some"
          ELSE /\ an' = [an EXCEPT ![t] = data_ref_count]
               /\ UNCHANGED <<data_ref_count, arcs, apc, up_ret>>
    /\ UNCHANGED <<alloc_ref_count, weaks, is_unique, gm_call, num_drops,
                   num_frees, aborted>>

\* the loop body of upgrade handing out the Arc without counting it
UpgradeLoopNoIncrement(t) ==
    /\ At(t, "up_loop")
    /\ ArcFrame /\ HandlesKept
    /\ IF an[t] = 0
          THEN /\ apc' = [apc EXCEPT ![t] = "idle"]
               /\ up_ret' = "null"
               /\ uaf' = uaf
               /\ UNCHANGED <<data_ref_count, arcs, an>>
          ELSE /\ Touch
               /\ IF data_ref_count = an[t]
                     THEN /\ data_ref_count' = an[t]
                          /\ arcs' = [arcs EXCEPT ![t] = @ + 1]
                          /\ apc' = [apc EXCEPT ![t] = "idle"]
                          /\ an' = [an EXCEPT ![t] = 0]
                          /\ up_ret' = "some"
                     ELSE /\ an' = [an EXCEPT ![t] = data_ref_count]
                          /\ UNCHANGED <<data_ref_count, arcs, apc, up_ret>>
    /\ UNCHANGED <<alloc_ref_count, weaks, is_unique, gm_call, num_drops,
                   num_frees, aborted>>

(* Weak::upgrade, lines 42-56 : one turn of the loop.  n == 0 returns None; *)
(* assert!(n <= MAX / 2) panics; compare_exchange_weak(n, n + 1) returns    *)
(* Some(Arc) on success and reloads n on failure.                           *)
UpgradeLoop(t) ==
    /\ At(t, "up_loop")
    /\ ArcFrame /\ HandlesKept
    /\ IF an[t] = 0
          THEN /\ apc' = [apc EXCEPT ![t] = "idle"]
               /\ up_ret' = "null"
               /\ uaf' = uaf
               /\ UNCHANGED <<data_ref_count, arcs, an>>
          ELSE IF an[t] > USIZE_MAX \div 2
          THEN /\ apc' = [apc EXCEPT ![t] = "panicked"]
               /\ uaf' = uaf
               /\ UNCHANGED <<data_ref_count, arcs, an, up_ret>>
          ELSE /\ Touch
               /\ IF data_ref_count = an[t]
                     THEN /\ data_ref_count' = an[t] + 1
                          /\ arcs' = [arcs EXCEPT ![t] = @ + 1]
                          /\ apc' = [apc EXCEPT ![t] = "idle"]
                          /\ an' = [an EXCEPT ![t] = 0]
                          /\ up_ret' = "some"
                     ELSE /\ an' = [an EXCEPT ![t] = data_ref_count]
                          /\ UNCHANGED <<data_ref_count, arcs, apc, up_ret>>
    /\ UNCHANGED <<alloc_ref_count, weaks, is_unique, gm_call, num_drops,
                   num_frees, aborted>>

(* Arc::downgrade, line 121 : let mut n = alloc_ref_count.load(Relaxed) *)
DowngradeLoad(t) ==
    /\ Idle(t) /\ arcs[t] > 0
    /\ ArcFrame /\ HandlesKept
    /\ TotalWeaks < MaxHandles
    /\ an' = [an EXCEPT ![t] = alloc_ref_count]
    /\ apc' = [apc EXCEPT ![t] = "dg_loop"]
    /\ Touch
    /\ UNCHANGED <<data_ref_count, alloc_ref_count, arcs, weaks, is_unique,
                   gm_call, num_drops, num_frees, aborted,
                   up_ret>>

\* the loop body of downgrade with the n == usize::MAX test left out
DowngradeLoopNoSentinelTest(t) ==
    /\ At(t, "dg_loop")
    /\ ArcFrame /\ HandlesKept
    /\ Touch
    /\ IF alloc_ref_count = an[t]
          THEN /\ alloc_ref_count' = (an[t] + 1) % USIZE_MOD
               /\ weaks' = [weaks EXCEPT ![t] = @ + 1]
               /\ apc' = [apc EXCEPT ![t] = "idle"]
               /\ an' = [an EXCEPT ![t] = 0]
          ELSE /\ an' = [an EXCEPT ![t] = alloc_ref_count]
               /\ UNCHANGED <<alloc_ref_count, weaks, apc>>
    /\ UNCHANGED <<data_ref_count, arcs, is_unique, gm_call, num_drops,
                   num_frees, aborted,
                   up_ret>>

(* Arc::downgrade, lines 122-140 : one turn of the loop.  n == usize::MAX   *)
(* spins and reloads; assert!(n <= MAX / 2) panics;                         *)
(* compare_exchange_weak(n, n + 1) returns the Weak on success and reloads  *)
(* n on failure.                                                            *)
DowngradeLoop(t) ==
    /\ At(t, "dg_loop")
    /\ ArcFrame /\ HandlesKept
    /\ IF an[t] = USIZE_MAX
          THEN /\ Touch
               /\ an' = [an EXCEPT ![t] = alloc_ref_count]
               /\ UNCHANGED <<alloc_ref_count, weaks, apc>>
          ELSE IF an[t] > USIZE_MAX \div 2
          THEN /\ apc' = [apc EXCEPT ![t] = "panicked"]
               /\ uaf' = uaf
               /\ UNCHANGED <<alloc_ref_count, weaks, an>>
          ELSE /\ Touch
               /\ IF alloc_ref_count = an[t]
                     THEN /\ alloc_ref_count' = an[t] + 1
                          /\ weaks' = [weaks EXCEPT ![t] = @ + 1]
                          /\ apc' = [apc EXCEPT ![t] = "idle"]
                          /\ an' = [an EXCEPT ![t] = 0]
                     ELSE /\ an' = [an EXCEPT ![t] = alloc_ref_count]
                          /\ UNCHANGED <<alloc_ref_count, weaks, apc>>
    /\ UNCHANGED <<data_ref_count, arcs, is_unique, gm_call, num_drops,
                   num_frees, aborted,
                   up_ret>>

(* Arc::get_mut, lines 93-100 : compare_exchange(1, usize::MAX); a failure  *)
(* returns None.  gm_call records the handles other than the caller's Arc   *)
(* that are alive at the call.                                              *)
GetMutCas(t) ==
    /\ Idle(t) /\ arcs[t] > 0
    /\ ArcFrame /\ HandlesKept
    /\ Touch
    /\ IF alloc_ref_count = 1
          THEN /\ alloc_ref_count' = USIZE_MAX
               /\ apc' = [apc EXCEPT ![t] = "gm_load"]
               /\ gm_call' = [gm_call EXCEPT ![t] = TotalArcs + TotalWeaks - 1]
          ELSE /\ UNCHANGED <<alloc_ref_count, apc, gm_call>>
    /\ UNCHANGED <<data_ref_count, arcs, weaks, an, is_unique, num_drops,
                   num_frees, aborted,
                   up_ret>>

(* Arc::get_mut, line 102 : is_unique = data_ref_count.load(Relaxed) == 1 *)
GetMutLoad(t) ==
    /\ At(t, "gm_load")
    /\ ArcFrame /\ HandlesKept
    /\ Touch
    /\ is_unique' = [is_unique EXCEPT ![t] = (data_ref_count = 1)]
    /\ apc' = [apc EXCEPT ![t] = "gm_store"]
    /\ UNCHANGED <<data_ref_count, alloc_ref_count, arcs, weaks, an, gm_call,
                   num_drops, num_frees, aborted,
                   up_ret>>

\* get_mut's last step ignoring is_unique
GetMutStoreAlwaysSome(t) ==
    /\ At(t, "gm_store")
    /\ ArcFrame /\ HandlesKept
    /\ Touch
    /\ alloc_ref_count' = 1
    /\ apc' = [apc EXCEPT ![t] = "gm_mut"]
    /\ is_unique' = [is_unique EXCEPT ![t] = FALSE]
    /\ gm_call' = [gm_call EXCEPT ![t] = 0]
    /\ UNCHANGED <<data_ref_count, arcs, weaks, an, num_drops, num_frees,
                   aborted,
                   up_ret>>

(* Arc::get_mut, lines 107-117 : alloc_ref_count.store(1); None unless      *)
(* is_unique, else Some(&mut T): the caller holds the exclusive reference   *)
(* while at "gm_mut".                                                       *)
GetMutStore(t) ==
    /\ At(t, "gm_store")
    /\ ArcFrame /\ HandlesKept
    /\ Touch
    /\ alloc_ref_count' = 1
    /\ apc' = [apc EXCEPT ![t] = IF is_unique[t] THEN "gm_mut" ELSE "idle"]
    /\ is_unique' = [is_unique EXCEPT ![t] = FALSE]
    /\ gm_call' = [gm_call EXCEPT ![t] = 0]
    /\ UNCHANGED <<data_ref_count, arcs, weaks, an, num_drops, num_frees,
                   aborted,
                   up_ret>>

(* the &mut T returned by get_mut goes out of scope *)
GetMutRelease(t) ==
    /\ At(t, "gm_mut")
    /\ ArcFrame /\ HandlesKept
    /\ apc' = [apc EXCEPT ![t] = "idle"]
    /\ UNCHANGED <<data_ref_count, alloc_ref_count, arcs, weaks, an, is_unique,
                   gm_call, num_drops, num_frees, uaf, aborted,
                   up_ret>>

\* Weak's drop freeing the block while another unit is still counted
WeakDropFreeEarly(t) ==
    /\ Idle(t) /\ weaks[t] > 0
    /\ ArcFrame /\ HandlesKept
    /\ Touch
    /\ weaks' = [weaks EXCEPT ![t] = @ - 1]
    /\ alloc_ref_count' = (alloc_ref_count - 1) % USIZE_MOD
    /\ apc' = [apc EXCEPT ![t] = IF alloc_ref_count = 2 THEN "wd_free" ELSE "idle"]
    /\ UNCHANGED <<data_ref_count, arcs, an, is_unique, gm_call, num_drops,
                   num_frees, aborted,
                   up_ret>>

(* impl Drop for Weak, line 198 : alloc_ref_count.fetch_sub(1) == 1 *)
WeakDrop(t) ==
    /\ Idle(t) /\ weaks[t] > 0
    /\ ArcFrame /\ HandlesKept
    /\ Touch
    /\ weaks' = [weaks EXCEPT ![t] = @ - 1]
    /\ alloc_ref_count' = (alloc_ref_count - 1) % USIZE_MOD
    /\ apc' = [apc EXCEPT ![t] = IF alloc_ref_count = 1 THEN "wd_free" ELSE "idle"]
    /\ UNCHANGED <<data_ref_count, arcs, an, is_unique, gm_call, num_drops,
                   num_frees, aborted,
                   up_ret>>

(* impl Drop for Weak, lines 199-202 : fence; drop(Box::from_raw(ptr)) *)
WeakFree(t) ==
    /\ At(t, "wd_free")
    /\ ArcFrame /\ HandlesKept
    /\ num_frees' = num_frees + 1
    /\ apc' = [apc EXCEPT ![t] = "idle"]
    /\ UNCHANGED <<data_ref_count, alloc_ref_count, arcs, weaks, an, is_unique,
                   gm_call, num_drops, uaf, aborted,
                   up_ret>>

\* Arc's drop destroying the payload on every decrement
ArcDropAlwaysDestroy(t) ==
    /\ Idle(t) /\ arcs[t] > 0
    /\ ArcFrame /\ HandlesKept
    /\ Touch
    /\ arcs' = [arcs EXCEPT ![t] = @ - 1]
    /\ data_ref_count' = (data_ref_count - 1) % USIZE_MOD
    /\ apc' = [apc EXCEPT ![t] = "ad_destroy"]
    /\ UNCHANGED <<alloc_ref_count, weaks, an, is_unique, gm_call, num_drops,
                   num_frees, aborted,
                   up_ret>>

(* impl Drop for Arc, line 209 : data_ref_count.fetch_sub(1) == 1 *)
ArcDrop(t) ==
    /\ Idle(t) /\ arcs[t] > 0
    /\ ArcFrame /\ HandlesKept
    /\ Touch
    /\ arcs' = [arcs EXCEPT ![t] = @ - 1]
    /\ data_ref_count' = (data_ref_count - 1) % USIZE_MOD
    /\ apc' = [apc EXCEPT ![t] = IF data_ref_count = 1 THEN "ad_destroy" ELSE "idle"]
    /\ UNCHANGED <<alloc_ref_count, weaks, an, is_unique, gm_call, num_drops,
                   num_frees, aborted,
                   up_ret>>

(* impl Drop for Arc, lines 210-219 : fence; ManuallyDrop::drop(data) *)
ArcDestroy(t) ==
    /\ At(t, "ad_destroy")
    /\ ArcFrame /\ HandlesKept
    /\ num_drops' = num_drops + 1
    /\ apc' = [apc EXCEPT ![t] = "ad_weak"]
    /\ Touch
    /\ UNCHANGED <<data_ref_count, alloc_ref_count, arcs, weaks, an, is_unique,
                   gm_call, num_frees, aborted,
                   up_ret>>

(* impl Drop for Arc, line 223 : drop(Weak { ptr }), the implicit unit: *)
(* Weak's drop, line 198                                                *)
ArcDropWeak(t) ==
    /\ At(t, "ad_weak")
    /\ ArcFrame /\ HandlesKept
    /\ Touch
    /\ alloc_ref_count' = (alloc_ref_count - 1) % USIZE_MOD
    /\ apc' = [apc EXCEPT ![t] = IF alloc_ref_count = 1 THEN "wd_free" ELSE "idle"]
    /\ UNCHANGED <<data_ref_count, arcs, weaks, an, is_unique, gm_call,
                   num_drops, num_frees, aborted,
                   up_ret>>

(* an Arc moved into another thread (thread::spawn(move || ..), tests) *)
SendArc(t, u) ==
    /\ Idle(t) /\ Idle(u) /\ t # u /\ arcs[t] > 0
    /\ ArcFrame /\ HandlesKept
    /\ arcs' = [arcs EXCEPT ![t] = @ - 1, ![u] = @ + 1]
    /\ UNCHANGED <<data_ref_count, alloc_ref_count, weaks, apc, an, is_unique,
                   gm_call, num_drops, num_frees, uaf, aborted,
                   up_ret>>

(* a Weak moved into another thread (thread::spawn(move || ..), tests) *)
SendWeak(t, u) ==
    /\ Idle(t) /\ Idle(u) /\ t # u /\ weaks[t] > 0
    /\ ArcFrame /\ HandlesKept
    /\ weaks' = [weaks EXCEPT ![t] = @ - 1, ![u] = @ + 1]
    /\ UNCHANGED <<data_ref_count, alloc_ref_count, arcs, apc, an, is_unique,
                   gm_call, num_drops, num_frees, uaf, aborted,
                   up_ret>>

ArcNext ==
    \E t \in ArcThreads :
        \/ ArcClone(t)
        \/ WeakClone(t)
        \/ UpgradeLoad(t)
        \/ UpgradeLoop(t)
        \/ DowngradeLoad(t)
        \/ DowngradeLoop(t)
        \/ GetMutCas(t)
        \/ GetMutLoad(t)
        \/ GetMutStore(t)
        \/ GetMutRelease(t)
        \/ WeakDrop(t)
        \/ WeakFree(t)
        \/ ArcDrop(t)
        \/ ArcDestroy(t)
        \/ ArcDropWeak(t)
        \/ \E u \in ArcThreads : SendArc(t, u)
        \/ \E u \in ArcThreads : SendWeak(t, u)

InitArc == ArcInit /\ LockOff /\ RwOff /\ ChanOff

SpecArc == InitArc /\ [][ArcNext]_vars

\* the steps of thread t inside an operation it has begun
ArcStep(t) ==
    \/ UpgradeLoop(t)
    \/ DowngradeLoop(t)
    \/ GetMutLoad(t)
    \/ GetMutStore(t)
    \/ GetMutRelease(t)
    \/ WeakFree(t)
    \/ ArcDestroy(t)
    \/ ArcDropWeak(t)

\* the operations that read or write alloc_ref_count while Arcs exist:
\* get_mut, downgrade, and clone and drop of Weak; Arcs are cloned and
\* moved to other threads, none is dropped
ArcSentinelNext ==
    \E t \in ArcThreads :
        \/ ArcClone(t)
        \/ WeakClone(t)
        \/ DowngradeLoad(t)
        \/ DowngradeLoop(t)
        \/ GetMutCas(t)
        \/ GetMutLoad(t)
        \/ GetMutStore(t)
        \/ GetMutRelease(t)
        \/ WeakDrop(t)
        \/ \E u \in ArcThreads : SendArc(t, u)
        \/ \E u \in ArcThreads : SendWeak(t, u)

InitArcSentinel == ArcInit /\ LockOff /\ RwOff /\ ChanOff

\* a thread inside an operation keeps running (pre-emptive OS threads);
\* whether it begins another operation is up to it
SpecArcSentinel == InitArcSentinel /\ [][ArcSentinelNext]_vars
                      /\ \A t \in ArcThreads : WF_vars(ArcStep(t))

\* the operations that raise a counter, on an allocation that already has
\* many handles: nothing is dropped
ArcCountNext ==
    \E t \in ArcThreads :
        \/ ArcClone(t)
        \/ WeakClone(t)
        \/ ProcessAbort(t)
        \/ UpgradeLoad(t)
        \/ UpgradeLoop(t)
        \/ DowngradeLoad(t)
        \/ DowngradeLoop(t)
        \/ \E u \in ArcThreads : SendArc(t, u)
        \/ \E u \in ArcThreads : SendWeak(t, u)

\* Arc::new, then clones and downgrades whose handles are kept, up to half
\* the range of a counter: ka Arcs and kw Weaks are kept, t1 owns one Arc
ArcCountInit(ka, kw) ==
    /\ data_ref_count = 1 + ka
    /\ alloc_ref_count = 1 + kw
    /\ arcs = [t \in ArcThreads |-> IF t = "t1" THEN 1 ELSE 0]
    /\ weaks = [t \in ArcThreads |-> 0]
    /\ apc = [t \in ArcThreads |-> "idle"]
    /\ an = [t \in ArcThreads |-> 0]
    /\ is_unique = [t \in ArcThreads |-> FALSE]
    /\ gm_call = [t \in ArcThreads |-> 0]
    /\ up_ret = "none"
    /\ num_drops = 0
    /\ num_frees = 0
    /\ uaf = FALSE
    /\ aborted = FALSE
    /\ kept_arcs = ka
    /\ kept_weaks = kw

InitArcCount ==
    /\ \E ka, kw \in {0, USIZE_MAX \div 2 - 1} : ArcCountInit(ka, kw)
    /\ LockOff
    /\ RwOff
    /\ ChanOff

SpecArcCount == InitArcCount /\ [][ArcCountNext]_vars

-----------------------------------------------------------------------------
(* Properties of Arc / Weak, checked under SpecArc.                        *)

ArcQuiescent == \A t \in ArcThreads : apc[t] = "idle"

\* C1: over every interleaving of clone, drop, downgrade, upgrade and Weak
\* drop the payload destructor runs at most once, it is about to run or has
\* run only when no Arc is alive any more (the strong count is 0), and once
\* every Arc is dropped and every thread has returned it has run exactly once.
C1_DestructorOnce ==
    /\ num_drops <= 1
    /\ \A t \in ArcThreads :
          apc[t] = "ad_destroy" => TotalArcs = 0 /\ data_ref_count = 0 /\ num_drops = 0
    /\ num_drops = 1 => TotalArcs = 0 /\ data_ref_count = 0
    /\ (ArcQuiescent /\ TotalArcs = 0) => num_drops = 1

\* the destructor has run while Weak handles are still held, after an upgrade
C1_Witness ==
    /\ num_drops = 1 /\ TotalWeaks >= 2 /\ num_frees = 0 /\ up_ret = "some"

\* C5: a return of Weak::upgrade hands out an Arc exactly when the strong
\* count is positive at that instant; the step that hands it out raises the
\* count by exactly one and happens while the payload is neither destroyed
\* nor about to be; a return of None leaves the count alone.
C5_UpgradeIffAlive ==
    [][\A t \in ArcThreads :
          (apc[t] = "up_loop" /\ apc'[t] = "idle") =>
             /\ (arcs'[t] = arcs[t] + 1) <=> (data_ref_count > 0)
             /\ arcs'[t] = arcs[t] + 1 =>
                   /\ data_ref_count' = data_ref_count + 1
                   /\ num_drops = 0
                   /\ \A u \in ArcThreads : apc[u] # "ad_destroy"
                   /\ up_ret' = "some"
             /\ arcs'[t] = arcs[t] =>
                   /\ data_ref_count' = data_ref_count
                   /\ up_ret' = "null"
             /\ data_ref_count' = TotalArcs']_vars

\* an upgrade has returned Some while another Arc and a Weak are alive
C5_Witness ==
    /\ up_ret = "some" /\ data_ref_count = 2 /\ TotalArcs = 2 /\ TotalWeaks >= 1

\* C6: once the strong count is 0 no step makes it positive again, and a
\* Weak::upgrade that returns while it is 0 returns None.
C6_ZeroIsPermanent ==
    [][data_ref_count = 0 =>
          /\ data_ref_count' = 0
          /\ TotalArcs' = 0
          /\ \A t \in ArcThreads :
                (apc[t] = "up_loop" /\ apc'[t] = "idle") => up_ret' = "null"]_vars

\* an upgrade begun after the last Arc was dropped has returned None
C6_Witness ==
    /\ data_ref_count = 0 /\ num_drops = 1 /\ up_ret = "null" /\ ArcQuiescent
    /\ TotalWeaks >= 1

\* C7 as stated: get_mut grants access exactly when no handle besides the
\* caller's Arc is alive at the time of the call.
C7_GrantIffUniqueAtCall ==
    [][\A t \in ArcThreads :
          apc[t] = "gm_store" =>
             ((apc'[t] = "gm_mut") <=> (gm_call[t] = 0))]_vars

\* C7 amended: get_mut grants access exactly when no handle besides the
\* caller's Arc is alive at the instant it reads data_ref_count (its
\* compare_exchange having succeeded), and it grants access whenever none is
\* alive at the call; it refuses at the compare_exchange only while another
\* handle is alive; and while the exclusive reference is held the caller's
\* Arc is the only handle and no other thread is inside an operation.
C7_GetMutExclusive ==
    /\ [](\A t \in ArcThreads :
            /\ apc[t] = "gm_mut" =>
                  /\ TotalArcs = 1 /\ arcs[t] = 1 /\ TotalWeaks = 0
                  /\ \A u \in ArcThreads \ {t} : apc[u] = "idle"
            /\ (apc[t] = "gm_store" /\ gm_call[t] = 0) => is_unique[t]
            /\ (apc[t] = "idle" /\ arcs[t] > 0 /\ alloc_ref_count # 1) =>
                  TotalArcs + TotalWeaks > 1)
    /\ [][\A t \in ArcThreads :
            /\ (apc[t] = "gm_load" /\ apc'[t] = "gm_store") =>
                  (is_unique'[t] <=> (TotalArcs = 1 /\ TotalWeaks = 0))
            /\ apc[t] = "gm_store" =>
                  ((apc'[t] = "gm_mut") <=> is_unique[t])]_vars

\* a thread holds the exclusive reference after others held handles
C7_Witness ==
    \E t \in ArcThreads : apc[t] = "gm_mut" /\ up_ret = "some"

\* C8: the block is freed at most once, by the decrement of alloc_ref_count
\* from 1 to 0; when it is freed or about to be, every Arc and every Weak is
\* dropped and the payload destructor has run; no operation touches a
\* counter of the freed block; and once every handle is dropped and every
\* thread has returned the block has been freed.
C8_FreeOnceAfterAll ==
    /\ num_frees <= 1
    /\ ~uaf
    /\ (num_frees = 1 \/ \E t \in ArcThreads : apc[t] = "wd_free") =>
          /\ TotalArcs = 0 /\ TotalWeaks = 0
          /\ num_drops = 1
          /\ alloc_ref_count = 0 /\ data_ref_count = 0
          /\ \A t \in ArcThreads : apc[t] \in {"idle", "wd_free"}
    /\ (ArcQuiescent /\ TotalArcs = 0 /\ TotalWeaks = 0) => num_frees = 1

\* the block was freed by a thread other than the one that ran the
\* destructor's drop, after an upgrade had failed
C8_Witness ==
    /\ num_frees = 1 /\ num_drops = 1 /\ up_ret = "null"

-----------------------------------------------------------------------------
(* mutex.rs : Mutex, MutexGuard; the futex wait / wake_one on Mutex.state   *)

\* where a thread continues when lock() has returned the guard
AfterLock(t) == IF t \in Pushers THEN "cs_read"
                ELSE IF t \in Waiters THEN "check" ELSE "set"

\* where a thread continues when its guard is dropped at the end of its section
AfterUnlock(t) == IF t \in Notifiers THEN "n_add" ELSE "done"

\* the threads holding a MutexGuard: from the return of lock() to the swap
\* of the guard's drop
Holders == {t \in LockThreads :
               lpc[t] \in {"cs_read", "cs_write", "unlock", "check", "cv_snap",
                           "cv_unlock", "set"}}

\* the threads inside lock(), not yet returned
Locking == {t \in LockThreads :
               lpc[t] \in {"lock", "spin", "cas2", "swap", "mwait", "mparked"}}

(* Mutex::lock, line 66 : compare_exchange(0, 1); a failure enters lock_contended *)
MutexLock(t) ==
    /\ lpc[t] = "lock"
    /\ LockFrame
    /\ IF m_state = 0
          THEN /\ m_state' = 1
               /\ lpc' = [lpc EXCEPT ![t] = AfterLock(t)]
          ELSE /\ lpc' = [lpc EXCEPT ![t] = "spin"]
               /\ m_state' = m_state
    /\ UNCHANGED <<m_value, spin_count, m_parked, tmp, counter, counter_value,
                   c_parked, notify_left, notify_kind, seen, l_spurious>>

(* lock_contended, lines 77-80 : while state.load() == 1 && spin_count < SPIN_LIMIT *)
LockSpin(t) ==
    /\ lpc[t] = "spin"
    /\ LockFrame
    /\ IF m_state = 1 /\ spin_count[t] < SpinLimit
          THEN /\ spin_count' = [spin_count EXCEPT ![t] = @ + 1]
               /\ lpc' = lpc
          ELSE /\ spin_count' = [spin_count EXCEPT ![t] = 0]
               /\ lpc' = [lpc EXCEPT ![t] = "cas2"]
    /\ UNCHANGED <<m_state, m_value, m_parked, tmp, counter, counter_value,
                   c_parked, notify_left, notify_kind, seen, l_spurious>>

(* lock_contended, lines 82-84 : compare_exchange(0, 1) once more *)
LockCas2(t) ==
    /\ lpc[t] = "cas2"
    /\ LockFrame
    /\ IF m_state = 0
          THEN /\ m_state' = 1
               /\ lpc' = [lpc EXCEPT ![t] = AfterLock(t)]
          ELSE /\ lpc' = [lpc EXCEPT ![t] = "swap"]
               /\ m_state' = m_state
    /\ UNCHANGED <<m_value, spin_count, m_parked, tmp, counter, counter_value,
                   c_parked, notify_left, notify_kind, seen, l_spurious>>

\* the swap of lock_contended taking the lock whatever it swapped out
LockSwapIgnoreOld(t) ==
    /\ lpc[t] = "swap"
    /\ LockFrame
    /\ m_state' = 2
    /\ lpc' = [lpc EXCEPT ![t] = AfterLock(t)]
    /\ UNCHANGED <<m_value, spin_count, m_parked, tmp, counter, counter_value,
                   c_parked, notify_left, notify_kind, seen, l_spurious>>

(* lock_contended, line 86 : while state.swap(2) != 0 *)
LockSwap(t) ==
    /\ lpc[t] = "swap"
    /\ LockFrame
    /\ m_state' = 2
    /\ lpc' = [lpc EXCEPT ![t] = IF m_state = 0 THEN AfterLock(t) ELSE "mwait"]
    /\ UNCHANGED <<m_value, spin_count, m_parked, tmp, counter, counter_value,
                   c_parked, notify_left, notify_kind, seen, l_spurious>>

\* wait(state, 2) parking the thread without comparing state with 2
LockWaitAlwaysPark(t) ==
    /\ lpc[t] = "mwait"
    /\ LockFrame
    /\ lpc' = [lpc EXCEPT ![t] = "mparked"]
    /\ m_parked' = m_parked \cup {t}
    /\ UNCHANGED <<m_state, m_value, spin_count, tmp, counter, counter_value,
                   c_parked, notify_left, notify_kind, seen, l_spurious>>

(* lock_contended, line 87 : wait(state, 2) parks the thread iff state = 2 *)
LockWait(t) ==
    /\ lpc[t] = "mwait"
    /\ LockFrame
    /\ IF m_state = 2
          THEN /\ lpc' = [lpc EXCEPT ![t] = "mparked"]
               /\ m_parked' = m_parked \cup {t}
          ELSE /\ lpc' = [lpc EXCEPT ![t] = "swap"]
               /\ m_parked' = m_parked
    /\ UNCHANGED <<m_state, m_value, spin_count, tmp, counter, counter_value,
                   c_parked, notify_left, notify_kind, seen, l_spurious>>

\* the guard's drop never calling wake_one
GuardDropNoWake(t, from, wake, next) ==
    /\ lpc[t] = from
    /\ LockFrame
    /\ m_state' = 0
    /\ lpc' = [lpc EXCEPT ![t] = next]
    /\ UNCHANGED <<m_value, spin_count, m_parked, tmp, counter, counter_value,
                   c_parked, notify_left, notify_kind, seen, l_spurious>>

(* impl Drop for MutexGuard, line 94 : state.swap(0) == 2 *)
GuardDrop(t, from, wake, next) ==
    /\ lpc[t] = from
    /\ LockFrame
    /\ m_state' = 0
    /\ lpc' = [lpc EXCEPT ![t] = IF m_state = 2 THEN wake ELSE next]
    /\ UNCHANGED <<m_value, spin_count, m_parked, tmp, counter, counter_value,
                   c_parked, notify_left, notify_kind, seen, l_spurious>>

(* impl Drop for MutexGuard, line 95 : wake_one(&state) makes one thread  *)
(* parked on state, if there is one, return from its wait                 *)
GuardWake(t, from, next) ==
    /\ lpc[t] = from
    /\ LockFrame
    /\ IF m_parked = {}
          THEN /\ lpc' = [lpc EXCEPT ![t] = next]
               /\ m_parked' = m_parked
          ELSE \E u \in m_parked :
                  /\ lpc' = [lpc EXCEPT ![t] = next, ![u] = "swap"]
                  /\ m_parked' = m_parked \ {u}
    /\ UNCHANGED <<m_state, m_value, spin_count, tmp, counter, counter_value,
                   c_parked, notify_left, notify_kind, seen, l_spurious>>

(* the guard of a section goes out of scope *)
MutexUnlock(t) == GuardDrop(t, "unlock", "wake", AfterUnlock(t))

MutexUnlockWake(t) == GuardWake(t, "wake", AfterUnlock(t))

(* wait(a, v) may return without a wake: a thread parked on Mutex.state    *)
(* goes back to the swap of lock_contended's loop, a thread parked on      *)
(* Condvar.counter goes on to mutex.lock()                                 *)
SpuriousWake(t) ==
    /\ l_spurious < MaxSpurious
    /\ t \in m_parked \cup c_parked
    /\ LockFrame
    /\ l_spurious' = l_spurious + 1
    /\ lpc' = [lpc EXCEPT ![t] = IF t \in m_parked THEN "swap" ELSE "lock"]
    /\ m_parked' = m_parked \ {t}
    /\ c_parked' = c_parked \ {t}
    /\ counter_value' = [counter_value EXCEPT ![t] = 0]
    /\ UNCHANGED <<m_state, m_value, spin_count, tmp, counter, notify_left,
                   notify_kind, seen>>

(* a user pushing its value into the guarded Vec: Vec::push reads the      *)
(* vector (its length and buffer) ...                                      *)
PushRead(t) ==
    /\ lpc[t] = "cs_read"
    /\ LockFrame
    /\ tmp' = [tmp EXCEPT ![t] = m_value]
    /\ lpc' = [lpc EXCEPT ![t] = "cs_write"]
    /\ UNCHANGED <<m_state, m_value, spin_count, m_parked, counter,
                   counter_value, c_parked, notify_left, notify_kind, seen,
                   l_spurious>>

(* ... and writes it back with the value appended, through DerefMut of the guard *)
PushWrite(t) ==
    /\ lpc[t] = "cs_write"
    /\ LockFrame
    /\ m_value' = Append(tmp[t], PushVal[t])
    /\ tmp' = [tmp EXCEPT ![t] = <<>>]
    /\ lpc' = [lpc EXCEPT ![t] = "unlock"]
    /\ UNCHANGED <<m_state, spin_count, m_parked, counter, counter_value,
                   c_parked, notify_left, notify_kind, seen, l_spurious>>

\* a Mutex guarding an empty Vec, every pusher about to call lock()
MutexInit ==
    /\ m_state = 0
    /\ m_value = <<>>
    /\ lpc = [t \in LockThreads |-> IF t \in Pushers THEN "lock" ELSE "off"]
    /\ spin_count = [t \in LockThreads |-> 0]
    /\ m_parked = {}
    /\ tmp = [t \in LockThreads |-> <<>>]
    /\ counter = 0
    /\ counter_value = [t \in LockThreads |-> 0]
    /\ c_parked = {}
    /\ notify_left = [t \in LockThreads |-> 0]
    /\ notify_kind = [t \in LockThreads |-> "one"]
    /\ seen = [t \in LockThreads |-> 0]
    /\ l_spurious = 0

MutexNext ==
    \E t \in LockThreads :
        \/ MutexLock(t)
        \/ LockSpin(t)
        \/ LockCas2(t)
        \/ LockSwap(t)
        \/ LockWait(t)
        \/ MutexUnlock(t)
        \/ MutexUnlockWake(t)
        \/ SpuriousWake(t)
        \/ PushRead(t)
        \/ PushWrite(t)

\* the steps of thread t that the scheduler owes it: all but a spurious wake
MutexStep(t) ==
    \/ MutexLock(t)
    \/ LockSpin(t)
    \/ LockCas2(t)
    \/ LockSwap(t)
    \/ LockWait(t)
    \/ MutexUnlock(t)
    \/ MutexUnlockWake(t)
    \/ PushRead(t)
    \/ PushWrite(t)

InitMutex == MutexInit /\ ArcOff /\ RwOff /\ ChanOff

SpecMutex == InitMutex /\ [][MutexNext]_vars
                /\ \A t \in LockThreads : WF_vars(MutexStep(t))

-----------------------------------------------------------------------------
(* Properties of Mutex, checked under SpecMutex.                           *)

RECURSIVE SeqToSet(_)
SeqToSet(q) == IF q = <<>> THEN {} ELSE {Head(q)} \cup SeqToSet(Tail(q))

\* C2: at most one thread holds a MutexGuard; the guarded Vec never holds a
\* value twice, holds exactly the values of the threads that have finished
\* their push, and so holds every value exactly once when all are done.
C2_MutualExclusion ==
    /\ Cardinality(Holders) <= 1
    /\ Len(m_value) = Cardinality(SeqToSet(m_value))
    /\ SeqToSet(m_value) =
          {PushVal[t] : t \in {u \in Pushers : lpc[u] \in {"unlock", "wake", "done"}}}

\* all have pushed, the last to call lock() first, after a thread was parked
\* and a wait returned spuriously
C2_Witness ==
    /\ \A t \in Pushers : lpc[t] = "done"
    /\ m_value = <<3, 1, 2>>
    /\ l_spurious >= 1

\* the threads whose guard drop swapped out a 2 and has not yet called wake_one
WakePending == {t \in LockThreads : lpc[t] \in {"wake", "cv_wake"}}

\* the threads in the loop of lock_contended that are awake: each is at, or
\* on its way back to, state.swap(2)
Swapping == {t \in LockThreads : lpc[t] \in {"swap", "mwait"}}

C19_NoLostWakeup ==
    /\ [][\A t \in LockThreads :
             /\ (t \in Holders /\ t \notin Holders') =>
                   /\ m_state' = 0
                   /\ t \in WakePending' <=> m_state = 2
             /\ (t \notin WakePending /\ t \in WakePending') => t \in Holders
             /\ m_parked' \subseteq m_parked /\ m_parked' # m_parked =>
                   \/ WakePending' # WakePending
                   \/ l_spurious' # l_spurious]_vars
    /\ ~<>[](m_state = 0 /\ Locking # {})
    /\ (Locking # {} /\ Holders = {}) ~> (Holders # {})
    /\ \A t \in LockThreads : (t \in m_parked) ~> (t \notin m_parked)

\* a thread is parked in lock_contended, and the holder's drop has swapped
\* the 2 out of the state and is about to call wake_one
C19_Witness ==
    /\ m_state = 0
    /\ m_parked # {}
    /\ \E t \in Pushers : lpc[t] = "wake"

-----------------------------------------------------------------------------
(* condition_variable.rs : Condvar, and the users of test::condvar          *)

(* test::condvar, line 52 : while *m < 100 { m = condvar.wait(m) }, then    *)
(* the waiter reads *m and its guard goes out of scope                      *)
WaiterCheck(t) ==
    /\ lpc[t] = "check"
    /\ LockFrame
    /\ IF m_value < 100
          THEN /\ lpc' = [lpc EXCEPT ![t] = "cv_snap"]
               /\ seen' = seen
          ELSE /\ lpc' = [lpc EXCEPT ![t] = "unlock"]
               /\ seen' = [seen EXCEPT ![t] = m_value]
    /\ UNCHANGED <<m_state, m_value, spin_count, m_parked, tmp, counter,
                   counter_value, c_parked, notify_left, notify_kind, l_spurious>>

(* Condvar::wait, line 29 : let counter_value = self.counter.load(Relaxed) *)
CvSnapshot(t) ==
    /\ lpc[t] = "cv_snap"
    /\ LockFrame
    /\ counter_value' = [counter_value EXCEPT ![t] = counter]
    /\ lpc' = [lpc EXCEPT ![t] = "cv_unlock"]
    /\ UNCHANGED <<m_state, m_value, spin_count, m_parked, tmp, counter,
                   c_parked, notify_left, notify_kind, seen, l_spurious>>

\* Condvar::wait keeping the guard while it blocks
CvKeepGuard(t) ==
    /\ lpc[t] = "cv_unlock"
    /\ LockFrame
    /\ lpc' = [lpc EXCEPT ![t] = "cv_wait"]
    /\ UNCHANGED <<m_state, m_value, spin_count, m_parked, tmp, counter,
                   counter_value, c_parked, notify_left, notify_kind, seen,
                   l_spurious>>

(* Condvar::wait, lines 31-32 : let mutex = guard.mutex; drop(guard) *)
CvDropGuard(t) == GuardDrop(t, "cv_unlock", "cv_wake", "cv_wait")

CvDropGuardWake(t) == GuardWake(t, "cv_wake", "cv_wait")

(* Condvar::wait, lines 34-36 : wait(&self.counter, counter_value) parks   *)
(* the thread iff counter = counter_value; else on to mutex.lock()         *)
CvWait(t) ==
    /\ lpc[t] = "cv_wait"
    /\ LockFrame
    /\ IF counter = counter_value[t]
          THEN /\ lpc' = [lpc EXCEPT ![t] = "cparked"]
               /\ c_parked' = c_parked \cup {t}
               /\ counter_value' = counter_value
          ELSE /\ lpc' = [lpc EXCEPT ![t] = "lock"]
               /\ c_parked' = c_parked
               /\ counter_value' = [counter_value EXCEPT ![t] = 0]
    /\ UNCHANGED <<m_state, m_value, spin_count, m_parked, tmp, counter,
                   notify_left, notify_kind, seen, l_spurious>>

(* test::condvar, line 47 : *mutex.lock() = 123 *)
NotifierSet(t) ==
    /\ lpc[t] = "set"
    /\ LockFrame
    /\ m_value' = 123
    /\ lpc' = [lpc EXCEPT ![t] = "unlock"]
    /\ UNCHANGED <<m_state, spin_count, m_parked, tmp, counter, counter_value,
                   c_parked, notify_left, notify_kind, seen, l_spurious>>

\* a notify that does not bump the counter
NotifyAddNoIncrement(t) ==
    /\ lpc[t] = "n_add"
    /\ LockFrame
    /\ lpc' = [lpc EXCEPT ![t] = "n_wake"]
    /\ UNCHANGED <<m_state, m_value, spin_count, m_parked, tmp, counter,
                   counter_value, c_parked, notify_left, notify_kind, seen,
                   l_spurious>>

\* a notify whose counter stops at u32::MAX instead of wrapping
NotifyAddSaturating(t) ==
    /\ lpc[t] = "n_add"
    /\ LockFrame
    /\ counter' = IF counter = U32_MAX THEN U32_MAX ELSE counter + 1
    /\ lpc' = [lpc EXCEPT ![t] = "n_wake"]
    /\ UNCHANGED <<m_state, m_value, spin_count, m_parked, tmp, counter_value,
                   c_parked, notify_left, notify_kind, seen, l_spurious>>

(* Condvar::notify_one, line 19, Condvar::notify_all, line 24 :            *)
(* self.counter.fetch_add(1, Relaxed)                                      *)
NotifyAdd(t) ==
    /\ lpc[t] = "n_add"
    /\ LockFrame
    /\ counter' = (counter + 1) % U32_MOD
    /\ lpc' = [lpc EXCEPT ![t] = "n_wake"]
    /\ UNCHANGED <<m_state, m_value, spin_count, m_parked, tmp, counter_value,
                   c_parked, notify_left, notify_kind, seen, l_spurious>>

\* where the notifier continues after a notification
AfterNotify(t) == IF notify_left[t] > 1 THEN "n_add" ELSE "done"

\* a notify_one that wakes nobody
NotifyOneWakeNobody(t) ==
    /\ lpc[t] = "n_wake" /\ notify_kind[t] = "one"
    /\ LockFrame
    /\ notify_left' = [notify_left EXCEPT ![t] = @ - 1]
    /\ lpc' = [lpc EXCEPT ![t] = AfterNotify(t)]
    /\ UNCHANGED <<m_state, m_value, spin_count, m_parked, tmp, counter,
                   counter_value, c_parked, notify_kind, seen, l_spurious>>

(* Condvar::notify_one, line 20 : wake_one(&self.counter) makes one thread *)
(* parked on counter, if there is one, return from its wait                *)
NotifyOneWake(t) ==
    /\ lpc[t] = "n_wake" /\ notify_kind[t] = "one"
    /\ LockFrame
    /\ notify_left' = [notify_left EXCEPT ![t] = @ - 1]
    /\ IF c_parked = {}
          THEN /\ lpc' = [lpc EXCEPT ![t] = AfterNotify(t)]
               /\ UNCHANGED <<c_parked, counter_value>>
          ELSE \E u \in c_parked :
                  /\ lpc' = [lpc EXCEPT ![t] = AfterNotify(t), ![u] = "lock"]
                  /\ c_parked' = c_parked \ {u}
                  /\ counter_value' = [counter_value EXCEPT ![u] = 0]
    /\ UNCHANGED <<m_state, m_value, spin_count, m_parked, tmp, counter,
                   notify_kind, seen, l_spurious>>

(* Condvar::notify_all, line 25 : wake_all(&self.counter) makes every      *)
(* thread parked on counter return from its wait                           *)
NotifyAllWake(t) ==
    /\ lpc[t] = "n_wake" /\ notify_kind[t] = "all"
    /\ LockFrame
    /\ notify_left' = [notify_left EXCEPT ![t] = @ - 1]
    /\ lpc' = [u \in LockThreads |->
                  IF u = t THEN AfterNotify(t)
                  ELSE IF u \in c_parked THEN "lock" ELSE lpc[u]]
    /\ c_parked' = {}
    /\ counter_value' = [u \in LockThreads |->
                            IF u \in c_parked THEN 0 ELSE counter_value[u]]
    /\ UNCHANGED <<m_state, m_value, spin_count, m_parked, tmp, counter,
                   notify_kind, seen, l_spurious>>

\* a Mutex guarding 0 and a Condvar; the waiters in ws and the notifier are
\* about to call lock(); the notifier will notify n times with notify_one
\* (k = "one") or notify_all (k = "all")
CondvarInit(ws, n, k) ==
    /\ m_state = 0
    /\ m_value = 0
    /\ lpc = [t \in LockThreads |-> IF t \in ws \cup Notifiers THEN "lock" ELSE "off"]
    /\ spin_count = [t \in LockThreads |-> 0]
    /\ m_parked = {}
    /\ tmp = [t \in LockThreads |-> <<>>]
    /\ counter = 0
    /\ counter_value = [t \in LockThreads |-> 0]
    /\ c_parked = {}
    /\ notify_left = [t \in LockThreads |-> IF t \in Notifiers THEN n ELSE 0]
    /\ notify_kind = [t \in LockThreads |-> k]
    /\ seen = [t \in LockThreads |-> 0]
    /\ l_spurious = 0

\* the steps of thread t that the scheduler owes it: all but a spurious wake
CondvarStep(t) ==
    \/ MutexLock(t)
    \/ LockSpin(t)
    \/ LockCas2(t)
    \/ LockSwap(t)
    \/ LockWait(t)
    \/ MutexUnlock(t)
    \/ MutexUnlockWake(t)
    \/ WaiterCheck(t)
    \/ CvSnapshot(t)
    \/ CvDropGuard(t)
    \/ CvDropGuardWake(t)
    \/ CvWait(t)
    \/ NotifierSet(t)
    \/ NotifyAdd(t)
    \/ NotifyOneWake(t)
    \/ NotifyAllWake(t)

CondvarNext ==
    \E t \in LockThreads :
        \/ MutexLock(t)
        \/ LockSpin(t)
        \/ LockCas2(t)
        \/ LockSwap(t)
        \/ LockWait(t)
        \/ MutexUnlock(t)
        \/ MutexUnlockWake(t)
        \/ SpuriousWake(t)
        \/ WaiterCheck(t)
        \/ CvSnapshot(t)
        \/ CvDropGuard(t)
        \/ CvDropGuardWake(t)
        \/ CvWait(t)
        \/ NotifierSet(t)
        \/ NotifyAdd(t)
        \/ NotifyOneWake(t)
        \/ NotifyAllWake(t)

\* test::condvar : one waiter, one notifier calling notify_one once
CondvarTestNext ==
    \E t \in LockThreads :
        \/ MutexLock(t)
        \/ LockSpin(t)
        \/ LockCas2(t)
        \/ LockSwap(t)
        \/ LockWait(t)
        \/ MutexUnlock(t)
        \/ MutexUnlockWake(t)
        \/ SpuriousWake(t)
        \/ WaiterCheck(t)
        \/ CvSnapshot(t)
        \/ CvDropGuard(t)
        \/ CvDropGuardWake(t)
        \/ CvWait(t)
        \/ NotifierSet(t)
        \/ NotifyAdd(t)
        \/ NotifyOneWake(t)

InitCondvar ==
    /\ \E n \in 1..MaxNotify : \E k \in {"one", "all"} : CondvarInit(Waiters, n, k)
    /\ ArcOff /\ RwOff /\ ChanOff

InitCondvarTest == CondvarInit({"w1"}, 1, "one") /\ ArcOff /\ RwOff /\ ChanOff

\* every thread that can take a step other than a spurious wake eventually
\* takes one (pre-emptive OS threads)
SpecCondvar == InitCondvar /\ [][CondvarNext]_vars
                  /\ \A t \in LockThreads : WF_vars(CondvarStep(t))

SpecCondvarTest == InitCondvarTest /\ [][CondvarTestNext]_vars
                      /\ \A t \in LockThreads : WF_vars(CondvarStep(t))

\* one waiter, and a notifier that notifies as often as the counter has values
InitCondvarWrap ==
    /\ \E k \in {"one", "all"} : CondvarInit({"w1"}, U32_MOD, k)
    /\ ArcOff /\ RwOff /\ ChanOff

SpecCondvarWrap == InitCondvarWrap /\ [][CondvarNext]_vars
                      /\ \A t \in LockThreads : WF_vars(CondvarStep(t))

\* the notifications made so far by a notifier that set out to make n0: the
\* fetch_add calls of notify_one / notify_all that have returned
NotifyAdds(n0) ==
    LET n == CHOOSE x \in Notifiers : TRUE
    IN  n0 - notify_left[n] + (IF lpc[n] = "n_wake" THEN 1 ELSE 0)

-----------------------------------------------------------------------------
(* Properties of Condvar, checked under SpecCondvar (two waiters, a         *)
(* notifier using notify_one or notify_all) and SpecCondvarTest.            *)

\* thread t is inside Condvar::wait, its snapshot taken, its wait not yet returned
InWait(t) == lpc[t] \in {"cv_unlock", "cv_wake", "cv_wait", "cparked"}
\* the same, and t is not parked
InWaitAwake(t) == lpc[t] \in {"cv_unlock", "cv_wake", "cv_wait"}
\* the counter was incremented since t's snapshot
Notified(t) == counter # counter_value[t]

\* C9 as stated: a waiter whose snapshot is followed by an increment of the
\* counter by notify_one or notify_all eventually returns from Condvar::wait.
C9_NotifiedWaiterReturns ==
    \A t \in Waiters : (InWait(t) /\ Notified(t)) ~> (lpc[t] = "check")

\* C9 amended: a waiter not yet parked when the counter differs from its
\* snapshot never parks and returns from Condvar::wait; a waiter parked when
\* notify_all is about to wake returns from Condvar::wait; notify_one wakes
\* exactly one of the threads parked on the counter, this waiter for certain
\* only when no other is parked; no thread parks on a counter that differs
\* from its snapshot.
C9_NoLostNotification ==
    /\ \A t \in Waiters : (InWaitAwake(t) /\ Notified(t)) ~> (lpc[t] = "check")
    /\ \A t \in Waiters :
          (lpc[t] = "cparked" /\
             \E n \in Notifiers : lpc[n] = "n_wake" /\ notify_kind[n] = "all")
          ~> (lpc[t] = "check")
    /\ [][/\ \A t \in Waiters :
                (t \notin c_parked /\ t \in c_parked') => ~Notified(t)
          /\ \A n \in Notifiers :
                (lpc[n] = "n_wake" /\ lpc'[n] # "n_wake" /\ notify_kind[n] = "one"
                    /\ c_parked # {}) =>
                   /\ Cardinality(c_parked') = Cardinality(c_parked) - 1
                   /\ \A t \in c_parked \ c_parked' : lpc'[t] = "lock"]_vars

\* a waiter is parked on a snapshot older than the counter while the other
\* one, woken by notify_one, has left its loop
C9_Witness ==
    /\ lpc["w1"] = "cparked" /\ Notified("w1")
    /\ lpc["w2"] = "done" /\ seen["w2"] = 123

\* C10: the waiter of test::condvar always leaves its loop, and when it has
\* left it the value it read is the 123 the notifier wrote, whatever the
\* number of spurious returns of wait.
C10_WaiterSeesValue ==
    /\ <>(lpc["w1"] = "done")
    /\ [](lpc["w1"] \in {"unlock", "wake", "done"} => seen["w1"] = 123)
    /\ [](lpc["w1"] = "cv_snap" => m_value = 0)

\* the waiter has left its loop after two spurious returns and a notify_one
\* that found it parked
C10_Witness ==
    /\ lpc["w1"] = "done" /\ seen["w1"] = 123
    /\ l_spurious >= 2 /\ lpc["n1"] = "done"

\* C20: in Condvar::wait the thread snapshots the counter while it holds
\* the mutex; releases the mutex once, after the snapshot and before it
\* blocks (the drop of the guard sets the state to 0, and nothing the thread
\* does until it blocks touches the state again); blocks only from wait(counter,
\* snapshot), and only if the counter still equals the snapshot; holds no
\* guard while it is blocked, so that a locked mutex is then another
\* thread's; and holds the mutex, alone, when wait returns.
C20_WaitOrdering ==
    /\ [](/\ \A t \in c_parked : lpc[t] = "cparked" /\ t \notin Holders
          /\ \A t \in LockThreads : InWait(t) /\ lpc[t] # "cv_unlock" =>
                                          t \notin Holders
          /\ Cardinality(Holders) <= 1
          /\ m_state # 0 <=> Holders # {})
    /\ [][\A t \in LockThreads :
             /\ (lpc[t] = "cv_snap" /\ lpc'[t] # "cv_snap") =>
                   /\ lpc'[t] = "cv_unlock"
                   /\ counter_value'[t] = counter
                   /\ Holders = {t} /\ Holders' = {t}
                   /\ m_state' = m_state /\ m_state # 0
             /\ (lpc[t] = "cv_unlock" /\ lpc'[t] # "cv_unlock") =>
                   /\ lpc'[t] \in {"cv_wake", "cv_wait"}
                   /\ m_state # 0 /\ m_state' = 0
                   /\ Holders = {t} /\ Holders' = {}
                   /\ counter_value'[t] = counter_value[t]
             /\ (lpc[t] = "cv_wake" /\ lpc'[t] # "cv_wake") =>
                   /\ lpc'[t] = "cv_wait"
                   /\ m_state' = m_state
                   /\ counter_value'[t] = counter_value[t]
             /\ (lpc[t] = "cv_wait" /\ lpc'[t] # "cv_wait") =>
                   /\ lpc'[t] = IF counter = counter_value[t] THEN "cparked"
                                                               ELSE "lock"
                   /\ m_state' = m_state
             /\ (lpc[t] # "cparked" /\ lpc'[t] = "cparked") => lpc[t] = "cv_wait"
             /\ (lpc[t] = "cparked" /\ lpc'[t] # "cparked") =>
                   /\ lpc'[t] = "lock"
                   /\ m_state' = m_state
             /\ (t \in Waiters /\ lpc[t] # "check" /\ lpc'[t] = "check") =>
                   /\ t \in Locking
                   /\ Holders = {} /\ Holders' = {t}
                   /\ m_state' # 0]_vars

\* a waiter is blocked on the counter while the notifier holds the mutex, and
\* the other waiter has been through wait and is calling lock() again
C20_Witness ==
    /\ \E t \in Waiters : /\ t \in c_parked
                          /\ \E u \in Waiters \ {t} : u \in Locking /\ l_spurious >= 1
    /\ \E n \in Notifiers : lpc[n] = "set"
    /\ m_state # 0

\* C21 (as stated): every notify yields a counter value strictly greater
\* than every earlier one, so a thread inside wait, whose snapshot was taken
\* before the notifications made so far, never finds the counter equal to
\* its snapshot once a notification has been made.
C21_CounterMonotonic ==
    /\ [][counter' >= counter]_vars
    /\ [](\A t \in Waiters :
             InWait(t) /\ lpc[t] # "cv_unlock" /\ NotifyAdds(U32_MOD) >= 1 =>
                counter # counter_value[t])

\* C21 (amended): every notify adds one to the counter modulo 2^32, so the
\* counter is the number of notifications modulo 2^32; it is strictly
\* greater than every earlier value as long as fewer than 2^32
\* notifications have been made, and the counter differs from a snapshot
\* taken k notifications earlier exactly when k is no multiple of 2^32.
C21_CounterMonotonicModulo ==
    /\ [][/\ counter' \in {counter, (counter + 1) % U32_MOD}
          /\ counter' # counter =>
                \E t \in Notifiers : lpc[t] = "n_add" /\ lpc'[t] = "n_wake"
          /\ NotifyAdds(U32_MOD)' < U32_MOD => counter' >= counter]_vars
    /\ [](/\ counter = NotifyAdds(U32_MOD) % U32_MOD
          /\ \A t \in Waiters :
                InWait(t) /\ lpc[t] # "cv_unlock" =>
                   /\ counter_value[t] = 0
                   /\ counter # counter_value[t] <=>
                         NotifyAdds(U32_MOD) % U32_MOD # 0)

\* the waiter took its snapshot, released the mutex, and parks after the
\* notifier's 2^32 notifications have brought the counter back to the snapshot
C21_Witness ==
    /\ NotifyAdds(U32_MOD) = U32_MOD
    /\ counter = 0
    /\ lpc["w1"] = "cparked" /\ counter_value["w1"] = 0
    /\ m_value = 123

-----------------------------------------------------------------------------
(* read_write_lock.rs : RwLock, ReadGuard, WriteGuard; the futex wait /     *)
(* wake_one / wake_all on RwLock.state and RwLock.writer_wake_counter       *)

\* the threads holding a ReadGuard: from the return of read() to the
\* fetch_sub of the guard's drop
ReadHolders == {t \in RwThreads : rpc[t] = "reading"}
\* the threads holding a WriteGuard: from the return of write() to the
\* store of the guard's drop
WriteHolders == {t \in RwThreads : rpc[t] \in {"writing", "w_unlock"}}
\* the threads inside write(), not yet returned
InWrite == {t \in RwThreads :
               rpc[t] \in {"w_loop", "w_loadw", "w_check", "w_wait", "w_parked",
                           "w_reload"}}
\* the threads inside read(), not yet returned
InRead == {t \in RwThreads :
              rpc[t] \in {"r_loop", "r_wait", "r_parked", "r_reload"}}

\* read() trying the compare_exchange whatever the parity of s
ReadAtAlwaysTry(s) == "r_loop"

\* read()'s two tests of s : s % 2 == 0 tries the compare_exchange, s % 2 == 1 waits
ReadAt(s) == IF s % 2 = 0 THEN "r_loop" ELSE "r_wait"

(* RwLock::read, line 84 : let mut s = self.state.load(Relaxed) *)
ReadLoad(t) ==
    /\ rpc[t] = "idle" /\ r_left[t] > 0
    /\ RwFrame
    /\ r_left' = [r_left EXCEPT ![t] = @ - 1]
    /\ rs' = [rs EXCEPT ![t] = rw_state]
    /\ rpc' = [rpc EXCEPT ![t] = ReadAt(rw_state)]
    /\ UNCHANGED <<rw_state, writer_wake_counter, rw_value, rw, s_parked,
                   w_parked, r_seen, r_spurious, r_held>>

(* RwLock::read, lines 87-93 : s even: assert_ne!(s, u32::MAX - 2), then    *)
(* compare_exchange_weak(s, s + 2) returns the ReadGuard on success and     *)
(* sets s to the value found on failure.  The sum s + 2 is computed before  *)
(* the compare_exchange: when it exceeds u32::MAX a build with overflow     *)
(* checks (debug) panics there, and a build without them (release) wraps.   *)
ReadLoop(t) ==
    /\ rpc[t] = "r_loop"
    /\ RwFrame
    /\ IF rs[t] = U32_MAX - 2
          THEN /\ rpc' = [rpc EXCEPT ![t] = "panicked"]
               /\ UNCHANGED <<rw_state, rs, r_seen>>
          ELSE \/ /\ rs[t] + 2 > U32_MAX
                  /\ rpc' = [rpc EXCEPT ![t] = "overflowed"]
                  /\ UNCHANGED <<rw_state, rs, r_seen>>
               \/ IF rw_state = rs[t]
                     THEN /\ rw_state' = (rs[t] + 2) % U32_MOD
                          /\ rpc' = [rpc EXCEPT ![t] = "reading"]
                          /\ rs' = [rs EXCEPT ![t] = 0]
                          /\ r_seen' = [r_seen EXCEPT ![t] = rw_value]
                     ELSE /\ rs' = [rs EXCEPT ![t] = rw_state]
                          /\ rpc' = [rpc EXCEPT ![t] = ReadAt(rw_state)]
                          /\ UNCHANGED <<rw_state, r_seen>>
    /\ UNCHANGED <<writer_wake_counter, rw_value, rw, s_parked, w_parked,
                   r_left, r_spurious, r_held>>

(* RwLock::read, line 98 : s odd: wait(&self.state, s) parks the thread iff state = s *)
ReadWait(t) ==
    /\ rpc[t] = "r_wait"
    /\ RwFrame
    /\ IF rw_state = rs[t]
          THEN /\ rpc' = [rpc EXCEPT ![t] = "r_parked"]
               /\ s_parked' = s_parked \cup {t}
          ELSE /\ rpc' = [rpc EXCEPT ![t] = "r_reload"]
               /\ s_parked' = s_parked
    /\ UNCHANGED <<rw_state, writer_wake_counter, rw_value, rs, rw, w_parked,
                   r_left, r_seen, r_spurious, r_held>>

(* RwLock::read, line 99 : s = self.state.load(Relaxed) *)
ReadReload(t) ==
    /\ rpc[t] = "r_reload"
    /\ RwFrame
    /\ rs' = [rs EXCEPT ![t] = rw_state]
    /\ rpc' = [rpc EXCEPT ![t] = ReadAt(rw_state)]
    /\ UNCHANGED <<rw_state, writer_wake_counter, rw_value, rw, s_parked,
                   w_parked, r_left, r_seen, r_spurious, r_held>>

(* RwLock::read, line 90 : the ReadGuard returned is kept alive by its     *)
(* owner (stored, or held in an outer scope) while the thread goes on     *)
ReadKeep(t) ==
    /\ rpc[t] = "reading"
    /\ RwFrame
    /\ r_held' = r_held + 1
    /\ rpc' = [rpc EXCEPT ![t] = "idle"]
    /\ r_seen' = [r_seen EXCEPT ![t] = 0]
    /\ UNCHANGED <<rw_state, writer_wake_counter, rw_value, rs, rw, s_parked,
                   w_parked, r_left, r_spurious>>

\* the drop of a ReadGuard waking a writer whatever fetch_sub returned
ReadUnlockAlwaysWake(t) ==
    /\ rpc[t] = "reading"
    /\ RwFrame
    /\ rw_state' = (rw_state - 2) % U32_MOD
    /\ rpc' = [rpc EXCEPT ![t] = "rd_bump"]
    /\ r_seen' = [r_seen EXCEPT ![t] = 0]
    /\ UNCHANGED <<writer_wake_counter, rw_value, rs, rw, s_parked, w_parked,
                   r_left, r_spurious, r_held>>

(* impl Drop for ReadGuard, line 41 : state.fetch_sub(2, Release) == 3 *)
ReadUnlock(t) ==
    /\ rpc[t] = "reading"
    /\ RwFrame
    /\ rw_state' = (rw_state - 2) % U32_MOD
    /\ rpc' = [rpc EXCEPT ![t] = IF rw_state = 3 THEN "rd_bump" ELSE "idle"]
    /\ r_seen' = [r_seen EXCEPT ![t] = 0]
    /\ UNCHANGED <<writer_wake_counter, rw_value, rs, rw, s_parked, w_parked,
                   r_left, r_spurious, r_held>>

(* impl Drop for ReadGuard, line 42 : writer_wake_counter.fetch_add(1, Release) *)
ReadUnlockBump(t) ==
    /\ rpc[t] = "rd_bump"
    /\ RwFrame
    /\ writer_wake_counter' = (writer_wake_counter + 1) % U32_MOD
    /\ rpc' = [rpc EXCEPT ![t] = "rd_wake"]
    /\ UNCHANGED <<rw_state, rw_value, rs, rw, s_parked, w_parked, r_left,
                   r_seen, r_spurious, r_held>>

\* wake_one(&writer_wake_counter) by thread t, which goes on to next: one
\* thread parked on the counter, if there is one, returns from its wait
WakeOneWriter(t, next) ==
    IF w_parked = {}
       THEN /\ rpc' = [rpc EXCEPT ![t] = next]
            /\ w_parked' = w_parked
       ELSE \E u \in w_parked :
               /\ rpc' = [rpc EXCEPT ![t] = next, ![u] = "w_reload"]
               /\ w_parked' = w_parked \ {u}

(* impl Drop for ReadGuard, line 43 : wake_one(&writer_wake_counter) *)
ReadUnlockWake(t) ==
    /\ rpc[t] = "rd_wake"
    /\ RwFrame
    /\ WakeOneWriter(t, "idle")
    /\ UNCHANGED <<rw_state, writer_wake_counter, rw_value, rs, rw, s_parked,
                   r_left, r_seen, r_spurious, r_held>>

(* RwLock::write, line 105 : let mut s = self.state.load(Relaxed) *)
WriteLoad(t) ==
    /\ rpc[t] = "idle" /\ r_left[t] > 0
    /\ RwFrame
    /\ r_left' = [r_left EXCEPT ![t] = @ - 1]
    /\ rs' = [rs EXCEPT ![t] = rw_state]
    /\ rpc' = [rpc EXCEPT ![t] = "w_loop"]
    /\ UNCHANGED <<rw_state, writer_wake_counter, rw_value, rw, s_parked,
                   w_parked, r_seen, r_spurious, r_held>>

\* write()'s first test taking the lock whatever the number of readers
WriteLoopNoReaderTest(t) ==
    /\ rpc[t] = "w_loop"
    /\ RwFrame
    /\ IF rw_state = rs[t]
          THEN /\ rw_state' = U32_MAX
               /\ rpc' = [rpc EXCEPT ![t] = "writing"]
               /\ rs' = [rs EXCEPT ![t] = 0]
          ELSE /\ rs' = [rs EXCEPT ![t] = rw_state]
               /\ UNCHANGED <<rw_state, rpc>>
    /\ UNCHANGED <<writer_wake_counter, rw_value, rw, s_parked, w_parked,
                   r_left, r_seen, r_spurious, r_held>>

(* RwLock::write, lines 106-126 : the top of the loop.  s <= 1:             *)
(* compare_exchange(s, u32::MAX) returns the WriteGuard on success, sets s  *)
(* and continues on failure.  Else s even: compare_exchange(s, s + 1) goes  *)
(* on to the wait on success (s keeps its value), sets s and continues on   *)
(* failure.  Else (s odd) straight on to the wait.                          *)
WriteLoop(t) ==
    /\ rpc[t] = "w_loop"
    /\ RwFrame
    /\ IF rs[t] <= 1
          THEN IF rw_state = rs[t]
                  THEN /\ rw_state' = U32_MAX
                       /\ rpc' = [rpc EXCEPT ![t] = "writing"]
                       /\ rs' = [rs EXCEPT ![t] = 0]
                  ELSE /\ rs' = [rs EXCEPT ![t] = rw_state]
                       /\ UNCHANGED <<rw_state, rpc>>
          ELSE IF rs[t] % 2 = 0
          THEN IF rw_state = rs[t]
                  THEN /\ rw_state' = rs[t] + 1
                       /\ rpc' = [rpc EXCEPT ![t] = "w_loadw"]
                       /\ rs' = rs
                  ELSE /\ rs' = [rs EXCEPT ![t] = rw_state]
                       /\ UNCHANGED <<rw_state, rpc>>
          ELSE /\ rpc' = [rpc EXCEPT ![t] = "w_loadw"]
               /\ UNCHANGED <<rw_state, rs>>
    /\ UNCHANGED <<writer_wake_counter, rw_value, rw, s_parked, w_parked,
                   r_left, r_seen, r_spurious, r_held>>

(* RwLock::write, line 129 : let w = self.writer_wake_counter.load(Acquire) *)
WriteLoadW(t) ==
    /\ rpc[t] = "w_loadw"
    /\ RwFrame
    /\ rw' = [rw EXCEPT ![t] = writer_wake_counter]
    /\ rpc' = [rpc EXCEPT ![t] = "w_check"]
    /\ UNCHANGED <<rw_state, writer_wake_counter, rw_value, rs, s_parked,
                   w_parked, r_left, r_seen, r_spurious, r_held>>

(* RwLock::write, line 130 : if self.state.load(Relaxed) >= 2 { wait .. };  *)
(* the value loaded is not kept: when it is < 2 the loop starts again with  *)
(* s as it was                                                              *)
WriteCheck(t) ==
    /\ rpc[t] = "w_check"
    /\ RwFrame
    /\ IF rw_state >= 2
          THEN /\ rpc' = [rpc EXCEPT ![t] = "w_wait"]
               /\ rw' = rw
          ELSE /\ rpc' = [rpc EXCEPT ![t] = "w_loop"]
               /\ rw' = [rw EXCEPT ![t] = 0]
    /\ UNCHANGED <<rw_state, writer_wake_counter, rw_value, rs, s_parked,
                   w_parked, r_left, r_seen, r_spurious, r_held>>

(* RwLock::write, line 131 : wait(&self.writer_wake_counter, w) parks the  *)
(* thread iff writer_wake_counter = w                                      *)
WriteWait(t) ==
    /\ rpc[t] = "w_wait"
    /\ RwFrame
    /\ IF writer_wake_counter = rw[t]
          THEN /\ rpc' = [rpc EXCEPT ![t] = "w_parked"]
               /\ w_parked' = w_parked \cup {t}
          ELSE /\ rpc' = [rpc EXCEPT ![t] = "w_reload"]
               /\ w_parked' = w_parked
    /\ rw' = [rw EXCEPT ![t] = 0]
    /\ UNCHANGED <<rw_state, writer_wake_counter, rw_value, rs, s_parked,
                   r_left, r_seen, r_spurious, r_held>>

(* RwLock::write, line 132 : s = self.state.load(Relaxed) *)
WriteReload(t) ==
    /\ rpc[t] = "w_reload"
    /\ RwFrame
    /\ rs' = [rs EXCEPT ![t] = rw_state]
    /\ rpc' = [rpc EXCEPT ![t] = "w_loop"]
    /\ UNCHANGED <<rw_state, writer_wake_counter, rw_value, rw, s_parked,
                   w_parked, r_left, r_seen, r_spurious, r_held>>

(* a write to the guarded value through DerefMut of the WriteGuard *)
WriteValue(t) ==
    /\ rpc[t] = "writing"
    /\ RwFrame
    /\ rw_value' = 1 - rw_value
    /\ rpc' = [rpc EXCEPT ![t] = "w_unlock"]
    /\ UNCHANGED <<rw_state, writer_wake_counter, rs, rw, s_parked, w_parked,
                   r_left, r_seen, r_spurious, r_held>>

(* impl Drop for WriteGuard, line 67 : state.store(0, Release) *)
WriteUnlock(t) ==
    /\ rpc[t] = "w_unlock"
    /\ RwFrame
    /\ rw_state' = 0
    /\ rpc' = [rpc EXCEPT ![t] = "wd_bump"]
    /\ UNCHANGED <<writer_wake_counter, rw_value, rs, rw, s_parked, w_parked,
                   r_left, r_seen, r_spurious, r_held>>

(* impl Drop for WriteGuard, line 68 : writer_wake_counter.fetch_add(1, Release) *)
WriteUnlockBump(t) ==
    /\ rpc[t] = "wd_bump"
    /\ RwFrame
    /\ writer_wake_counter' = (writer_wake_counter + 1) % U32_MOD
    /\ rpc' = [rpc EXCEPT ![t] = "wd_wake1"]
    /\ UNCHANGED <<rw_state, rw_value, rs, rw, s_parked, w_parked, r_left,
                   r_seen, r_spurious, r_held>>

(* impl Drop for WriteGuard, line 69 : wake_one(&writer_wake_counter) *)
WriteUnlockWakeOne(t) ==
    /\ rpc[t] = "wd_wake1"
    /\ RwFrame
    /\ WakeOneWriter(t, "wd_wake2")
    /\ UNCHANGED <<rw_state, writer_wake_counter, rw_value, rs, rw, s_parked,
                   r_left, r_seen, r_spurious, r_held>>

(* impl Drop for WriteGuard, line 70 : wake_all(&state) makes every thread *)
(* parked on state return from its wait                                    *)
WriteUnlockWakeAll(t) ==
    /\ rpc[t] = "wd_wake2"
    /\ RwFrame
    /\ rpc' = [u \in RwThreads |->
                  IF u = t THEN "idle"
                  ELSE IF u \in s_parked THEN "r_reload" ELSE rpc[u]]
    /\ s_parked' = {}
    /\ UNCHANGED <<rw_state, writer_wake_counter, rw_value, rs, rw, w_parked,
                   r_left, r_seen, r_spurious, r_held>>

(* wait(a, v) may return without a wake *)
RwSpuriousWake(t) ==
    /\ r_spurious < MaxSpurious
    /\ t \in s_parked \cup w_parked
    /\ RwFrame
    /\ r_spurious' = r_spurious + 1
    /\ rpc' = [rpc EXCEPT ![t] = IF t \in s_parked THEN "r_reload" ELSE "w_reload"]
    /\ s_parked' = s_parked \ {t}
    /\ w_parked' = w_parked \ {t}
    /\ UNCHANGED <<rw_state, writer_wake_counter, rw_value, rs, rw, r_left,
                   r_seen, r_held>>

(* RwLock::new, lines 75-81 : state = 0, writer_wake_counter = 0 *)
RwInit ==
    /\ rw_state = 0
    /\ writer_wake_counter = 0
    /\ rw_value = 0
    /\ rpc = [t \in RwThreads |-> "idle"]
    /\ rs = [t \in RwThreads |-> 0]
    /\ rw = [t \in RwThreads |-> 0]
    /\ s_parked = {}
    /\ w_parked = {}
    /\ r_left = [t \in RwThreads |-> MaxCalls]
    /\ r_seen = [t \in RwThreads |-> 0]
    /\ r_spurious = 0
    /\ r_held = 0

\* the steps of thread t that the scheduler owes it: all but a spurious wake
RwStep(t) ==
    \/ ReadLoad(t)
    \/ ReadLoop(t)
    \/ ReadWait(t)
    \/ ReadReload(t)
    \/ ReadUnlock(t)
    \/ ReadUnlockBump(t)
    \/ ReadUnlockWake(t)
    \/ WriteLoad(t)
    \/ WriteLoop(t)
    \/ WriteLoadW(t)
    \/ WriteCheck(t)
    \/ WriteWait(t)
    \/ WriteReload(t)
    \/ WriteValue(t)
    \/ WriteUnlock(t)
    \/ WriteUnlockBump(t)
    \/ WriteUnlockWakeOne(t)
    \/ WriteUnlockWakeAll(t)

RwNext ==
    \E t \in RwThreads :
        \/ ReadLoad(t)
        \/ ReadLoop(t)
        \/ ReadWait(t)
        \/ ReadReload(t)
        \/ ReadUnlock(t)
        \/ ReadUnlockBump(t)
        \/ ReadUnlockWake(t)
        \/ WriteLoad(t)
        \/ WriteLoop(t)
        \/ WriteLoadW(t)
        \/ WriteCheck(t)
        \/ WriteWait(t)
        \/ WriteReload(t)
        \/ WriteValue(t)
        \/ WriteUnlock(t)
        \/ WriteUnlockBump(t)
        \/ WriteUnlockWakeOne(t)
        \/ WriteUnlockWakeAll(t)
        \/ RwSpuriousWake(t)

InitRwLock == RwInit /\ ArcOff /\ LockOff /\ ChanOff

\* readers only: thread "a" calls read() as often as the state word has
\* even values, the others once, and each ReadGuard is dropped or kept
RwReadersInit ==
    /\ rw_state = 0
    /\ writer_wake_counter = 0
    /\ rw_value = 0
    /\ rpc = [t \in RwThreads |-> "idle"]
    /\ rs = [t \in RwThreads |-> 0]
    /\ rw = [t \in RwThreads |-> 0]
    /\ s_parked = {}
    /\ w_parked = {}
    /\ r_left = [t \in RwThreads |-> IF t = "a" THEN U32_MOD \div 2 ELSE 1]
    /\ r_seen = [t \in RwThreads |-> 0]
    /\ r_spurious = 0
    /\ r_held = 0

RwReadersNext ==
    \E t \in RwThreads :
        \/ ReadLoad(t)
        \/ ReadLoop(t)
        \/ ReadKeep(t)
        \/ ReadUnlock(t)

InitRwReaders == RwReadersInit /\ ArcOff /\ LockOff /\ ChanOff

SpecRwReaders == InitRwReaders /\ [][RwReadersNext]_vars

\* readers and writers, where a ReadGuard may be kept alive by its owner
RwKeepNext ==
    \/ RwNext
    \/ \E t \in RwThreads : ReadKeep(t)

\* a RwLock of which k ReadGuards, returned by k earlier calls of read(),
\* are kept alive; every thread is about to make its calls
RwKeepInit(k) ==
    /\ rw_state = 2 * k
    /\ writer_wake_counter = 0
    /\ rw_value = 0
    /\ rpc = [t \in RwThreads |-> "idle"]
    /\ rs = [t \in RwThreads |-> 0]
    /\ rw = [t \in RwThreads |-> 0]
    /\ s_parked = {}
    /\ w_parked = {}
    /\ r_left = [t \in RwThreads |-> MaxCalls]
    /\ r_seen = [t \in RwThreads |-> 0]
    /\ r_spurious = 0
    /\ r_held = k

InitRwKeep ==
    /\ \E k \in {0, U32_MOD \div 2 - 2} : RwKeepInit(k)
    /\ ArcOff /\ LockOff /\ ChanOff

SpecRwKeep == InitRwKeep /\ [][RwKeepNext]_vars

\* every thread that can take a step other than a spurious wake eventually
\* takes one (pre-emptive OS threads); every guard is released, and every
\* thread makes finitely many calls
SpecRwLock == InitRwLock /\ [][RwNext]_vars
                 /\ \A t \in RwThreads : WF_vars(RwStep(t))

-----------------------------------------------------------------------------
(* Properties of RwLock, checked under SpecRwLock.                          *)

C4_WriterProgress ==
    \A t \in RwThreads : (t \in InWrite) ~> (rpc[t] = "writing")

\* C11: while state is odd (writer waiting or write-locked) the number of
\* live ReadGuards never grows, and state goes from odd to even only in the
\* store of a WriteGuard's drop.
C11_WriterPreference ==
    [][/\ rw_state % 2 = 1 =>
             Cardinality(ReadHolders') <= Cardinality(ReadHolders)
       /\ (rw_state % 2 = 1 /\ rw_state' % 2 = 0) =>
             \E t \in RwThreads : /\ rpc[t] = "w_unlock"
                                  /\ rpc'[t] = "wd_bump"
                                  /\ rw_state = U32_MAX]_vars

\* a reader holds the lock, a writer has set the waiting bit and is parked,
\* and a third thread calling read() is parked on the odd state
C11_Witness ==
    /\ rw_state = 3
    /\ Cardinality(ReadHolders) = 1
    /\ w_parked # {}
    /\ s_parked # {}

\* the threads between the store of a WriteGuard's drop and its wake_all
WakeAllPending == {t \in RwThreads : rpc[t] \in {"wd_bump", "wd_wake1", "wd_wake2"}}

\* C23: with fair scheduling, every guard released and finitely many calls
\* of write(), every thread inside read() eventually gets a ReadGuard; state
\* goes from odd to even only in a WriteGuard's drop, which goes on to
\* wake_all on state and wakes every parked reader; so while a reader is
\* parked and state is even a wake_all is on its way, and no reader stays
\* parked.
C23_ReaderProgress ==
    /\ \A t \in RwThreads : (t \in InRead) ~> (rpc[t] = "reading")
    /\ \A t \in RwThreads : (t \in s_parked) ~> (t \notin s_parked)
    /\ [](s_parked # {} /\ rw_state % 2 = 0 => WakeAllPending # {})
    /\ [][/\ (rw_state % 2 = 1 /\ rw_state' % 2 = 0) =>
                \E t \in RwThreads : t \notin WakeAllPending /\ t \in WakeAllPending'
          /\ \A t \in RwThreads :
                (t \in WakeAllPending /\ t \notin WakeAllPending') =>
                   rpc[t] = "wd_wake2" /\ s_parked' = {}]_vars

\* C24: the drop of a ReadGuard subtracts 2 from state, which leaves the
\* writer-waiting bit as it was; it goes on to increment
\* writer_wake_counter and to wake_one exactly when the value before the
\* subtraction was 3, and the wake_one wakes one parked writer if there is
\* one and no reader; in every other case the drop ends with the
\* subtraction, which changes neither writer_wake_counter nor any thread.
C24_ReadReleaseTieBreak ==
    [][\A t \in RwThreads :
          /\ (t \in ReadHolders /\ t \notin ReadHolders') =>
                /\ rw_state' = rw_state - 2
                /\ rw_state' % 2 = rw_state % 2
                /\ rpc'[t] = IF rw_state = 3 THEN "rd_bump" ELSE "idle"
                /\ \A u \in RwThreads \ {t} : rpc'[u] = rpc[u]
                /\ UNCHANGED <<writer_wake_counter, w_parked, s_parked>>
          /\ (rpc[t] # "rd_bump" /\ rpc'[t] = "rd_bump") =>
                t \in ReadHolders /\ rw_state = 3
          /\ (rpc[t] = "rd_bump" /\ rpc'[t] # "rd_bump") =>
                /\ writer_wake_counter' = (writer_wake_counter + 1) % U32_MOD
                /\ rpc'[t] = "rd_wake"
                /\ \A u \in RwThreads \ {t} : rpc'[u] = rpc[u]
                /\ UNCHANGED <<rw_state, w_parked, s_parked>>
          /\ (rpc[t] = "rd_wake" /\ rpc'[t] # "rd_wake") =>
                /\ rpc'[t] = "idle"
                /\ UNCHANGED <<rw_state, writer_wake_counter, s_parked>>
                /\ w_parked' \subseteq w_parked
                /\ Cardinality(w_parked \ w_parked') =
                      IF w_parked = {} THEN 0 ELSE 1
                /\ \A u \in RwThreads \ {t} :
                      rpc'[u] = IF u \in w_parked \ w_parked' THEN "w_reload"
                                                               ELSE rpc[u]
          /\ (writer_wake_counter' # writer_wake_counter) =>
                \E u \in RwThreads : rpc[u] \in {"rd_bump", "wd_bump"}]_vars

\* the last reader has left a state of 3, has bumped writer_wake_counter and
\* is about to wake the writer that is parked on it
C24_Witness ==
    /\ rw_state = 1
    /\ w_parked # {}
    /\ \E t \in RwThreads : rpc[t] = "rd_wake"

-----------------------------------------------------------------------------
(* Reader-count overflow, checked under SpecRwReaders.                      *)

\* the ReadGuards that are live: those kept and those about to be dropped
LiveReadGuards == r_held + Cardinality(ReadHolders)

\* C12: while ReadGuards are live, state counts them and never decodes as
\* unlocked or write-locked; a read() whose s + 2 does not fit the word
\* ends in a panic, it does not acquire.
C12_ReaderOverflowGuarded ==
    /\ [](LiveReadGuards > 0 =>
             /\ rw_state \notin {0, 1, U32_MAX}
             /\ rw_state = 2 * LiveReadGuards)
    /\ [][\A t \in RwThreads :
             (rpc[t] = "r_loop" /\ rs[t] + 2 > U32_MAX /\ rpc'[t] # rpc[t]) =>
                rpc'[t] \in {"panicked", "overflowed"}]_vars

-----------------------------------------------------------------------------
(* The encoding of RwLock.state, checked under SpecRwKeep.                  *)

\* C22: state is the all-ones sentinel exactly when a WriteGuard is live, and
\* otherwise it is twice the number of live ReadGuards, plus 0 or 1.
C22_StateEncoding ==
    /\ rw_state = U32_MAX <=> WriteHolders # {}
    /\ rw_state # U32_MAX =>
          rw_state \in {2 * LiveReadGuards, 2 * LiveReadGuards + 1}

-----------------------------------------------------------------------------
(* Counter overflow of the Arc, checked under SpecArcCount.                 *)

\* usize::MAX / 2, the limit of clone, upgrade and downgrade
HalfRange == USIZE_MAX \div 2

\* C13: the counters never wrap: a step never lowers a counter, neither
\* counter is 0 and alloc_ref_count is not the sentinel while handles exist,
\* no counter passes MAX / 2 + 1 by more than one per thread; a clone goes on
\* to abort exactly when the value before its increment is above MAX / 2,
\* and upgrade and downgrade never increment a value above MAX / 2.
C13_CountersNeverWrap ==
    /\ [](/\ data_ref_count # 0
          /\ alloc_ref_count \notin {0, USIZE_MAX}
          /\ data_ref_count <= HalfRange + 1 + Cardinality(ArcThreads)
          /\ alloc_ref_count <= HalfRange + 1 + Cardinality(ArcThreads))
    /\ [][/\ data_ref_count' >= data_ref_count
          /\ alloc_ref_count' >= alloc_ref_count
          /\ \A t \in ArcThreads :
                (apc[t] = "idle" /\ apc'[t] = "aborting") =>
                   \/ data_ref_count > HalfRange /\ data_ref_count' = data_ref_count + 1
                   \/ alloc_ref_count > HalfRange /\ alloc_ref_count' = alloc_ref_count + 1
          /\ (data_ref_count' # data_ref_count /\ data_ref_count > HalfRange) =>
                \E t \in ArcThreads : apc[t] = "idle" /\ apc'[t] = "aborting"
          /\ (alloc_ref_count' # alloc_ref_count /\ alloc_ref_count > HalfRange) =>
                \E t \in ArcThreads : apc[t] = "idle" /\ apc'[t] = "aborting"]_vars

\* the process has aborted after two clones found the count above MAX / 2,
\* and an upgrade has refused to increment
C13_Witness ==
    /\ aborted
    /\ data_ref_count >= HalfRange + 3
    /\ \E t \in ArcThreads : apc[t] = "panicked"

-----------------------------------------------------------------------------
(* channel.rs : Channel ; state_machine_channel.rs : StateChannel.          *)
(* The write of the message into the slot is not atomic: it is two steps,   *)
(* with the slot "partial" in between.                                      *)

\* thread t is between two calls and has a call left to make
ChanIdle(t) == cpc[t] = "idle" /\ c_left[t] > 0

\* Channel::send without the test of in_use: it always goes on to write
ChSendNoTest(t) ==
    /\ ChanIdle(t)
    /\ ChanFrame
    /\ c_left' = [c_left EXCEPT ![t] = @ - 1]
    /\ ch_in_use' = TRUE
    /\ cpc' = [cpc EXCEPT ![t] = "ch_write1"]
    /\ ch_sends' = ch_sends + 1
    /\ UNCHANGED <<ch_ready, ch_message, st_state, st_message, c_got,
                   ch_receives, st_sends, st_receives>>

(* Channel::send, lines 29-31 : in_use.swap(true) ; panic when it was true *)
ChSend(t) ==
    /\ ChanIdle(t)
    /\ ChanFrame
    /\ c_left' = [c_left EXCEPT ![t] = @ - 1]
    /\ ch_in_use' = TRUE
    /\ IF ch_in_use
          THEN /\ cpc' = [cpc EXCEPT ![t] = "ch_send_panicked"]
               /\ ch_sends' = ch_sends
          ELSE /\ cpc' = [cpc EXCEPT ![t] = "ch_write1"]
               /\ ch_sends' = ch_sends + 1
    /\ UNCHANGED <<ch_ready, ch_message, st_state, st_message, c_got,
                   ch_receives, st_sends, st_receives>>

(* Channel::send, line 33 : message.write(message), begun *)
ChWriteBegin(t) ==
    /\ cpc[t] = "ch_write1"
    /\ ChanFrame
    /\ ch_message' = "partial"
    /\ cpc' = [cpc EXCEPT ![t] = "ch_write2"]
    /\ UNCHANGED <<ch_in_use, ch_ready, st_state, st_message, c_left, c_got,
                   ch_sends, ch_receives, st_sends, st_receives>>

(* Channel::send, line 33 : message.write(message), finished *)
ChWriteEnd(t) ==
    /\ cpc[t] = "ch_write2"
    /\ ChanFrame
    /\ ch_message' = t
    /\ cpc' = [cpc EXCEPT ![t] = "ch_store"]
    /\ UNCHANGED <<ch_in_use, ch_ready, st_state, st_message, c_left, c_got,
                   ch_sends, ch_receives, st_sends, st_receives>>

(* Channel::send, line 35 : ready.store(true, Release) *)
ChStoreReady(t) ==
    /\ cpc[t] = "ch_store"
    /\ ChanFrame
    /\ ch_ready' = TRUE
    /\ cpc' = [cpc EXCEPT ![t] = "idle"]
    /\ UNCHANGED <<ch_in_use, ch_message, st_state, st_message, c_left, c_got,
                   ch_sends, ch_receives, st_sends, st_receives>>

\* Channel::receive reading ready without resetting it
ChReceiveNoReset(t) ==
    /\ ChanIdle(t)
    /\ ChanFrame
    /\ c_left' = [c_left EXCEPT ![t] = @ - 1]
    /\ IF ch_ready
          THEN /\ cpc' = [cpc EXCEPT ![t] = "ch_read"]
               /\ ch_receives' = ch_receives + 1
          ELSE /\ cpc' = [cpc EXCEPT ![t] = "ch_recv_panicked"]
               /\ ch_receives' = ch_receives
    /\ UNCHANGED <<ch_in_use, ch_ready, ch_message, st_state, st_message,
                   c_got, ch_sends, st_sends, st_receives>>

(* Channel::receive, lines 51-53 : !ready.swap(false) panics *)
ChReceive(t) ==
    /\ ChanIdle(t)
    /\ ChanFrame
    /\ c_left' = [c_left EXCEPT ![t] = @ - 1]
    /\ ch_ready' = FALSE
    /\ IF ch_ready
          THEN /\ cpc' = [cpc EXCEPT ![t] = "ch_read"]
               /\ ch_receives' = ch_receives + 1
          ELSE /\ cpc' = [cpc EXCEPT ![t] = "ch_recv_panicked"]
               /\ ch_receives' = ch_receives
    /\ UNCHANGED <<ch_in_use, ch_message, st_state, st_message, c_got,
                   ch_sends, st_sends, st_receives>>

(* Channel::receive, line 55 : message.assume_init_read() *)
ChRead(t) ==
    /\ cpc[t] = "ch_read"
    /\ ChanFrame
    /\ c_got' = [c_got EXCEPT ![t] = ch_message]
    /\ cpc' = [cpc EXCEPT ![t] = "idle"]
    /\ UNCHANGED <<ch_in_use, ch_ready, ch_message, st_state, st_message,
                   c_left, ch_sends, ch_receives, st_sends, st_receives>>

(* StateChannel::send, lines 37-43 : compare_exchange(Empty, Writing) ; *)
(* panic when it fails                                                  *)
StSend(t) ==
    /\ ChanIdle(t)
    /\ ChanFrame
    /\ c_left' = [c_left EXCEPT ![t] = @ - 1]
    /\ IF st_state = "Empty"
          THEN /\ st_state' = "Writing"
               /\ cpc' = [cpc EXCEPT ![t] = "st_write1"]
               /\ st_sends' = st_sends + 1
          ELSE /\ st_state' = st_state
               /\ cpc' = [cpc EXCEPT ![t] = "st_send_panicked"]
               /\ st_sends' = st_sends
    /\ UNCHANGED <<ch_in_use, ch_ready, ch_message, st_message, c_got,
                   ch_sends, ch_receives, st_receives>>

(* StateChannel::send, line 46 : message.write(message), begun *)
StWriteBegin(t) ==
    /\ cpc[t] = "st_write1"
    /\ ChanFrame
    /\ st_message' = "partial"
    /\ cpc' = [cpc EXCEPT ![t] = "st_write2"]
    /\ UNCHANGED <<ch_in_use, ch_ready, ch_message, st_state, c_left, c_got,
                   ch_sends, ch_receives, st_sends, st_receives>>

(* StateChannel::send, line 46 : message.write(message), finished *)
StWriteEnd(t) ==
    /\ cpc[t] = "st_write2"
    /\ ChanFrame
    /\ st_message' = t
    /\ cpc' = [cpc EXCEPT ![t] = "st_store"]
    /\ UNCHANGED <<ch_in_use, ch_ready, ch_message, st_state, c_left, c_got,
                   ch_sends, ch_receives, st_sends, st_receives>>

(* StateChannel::send, line 49 : state.store(Ready, Release) *)
StStoreReady(t) ==
    /\ cpc[t] = "st_store"
    /\ ChanFrame
    /\ st_state' = "Ready"
    /\ cpc' = [cpc EXCEPT ![t] = "idle"]
    /\ UNCHANGED <<ch_in_use, ch_ready, ch_message, st_message, c_left, c_got,
                   ch_sends, ch_receives, st_sends, st_receives>>

(* StateChannel::receive, lines 57-63 : compare_exchange(Ready, Reading) ; *)
(* panic when it fails                                                     *)
StReceive(t) ==
    /\ ChanIdle(t)
    /\ ChanFrame
    /\ c_left' = [c_left EXCEPT ![t] = @ - 1]
    /\ IF st_state = "Ready"
          THEN /\ st_state' = "Reading"
               /\ cpc' = [cpc EXCEPT ![t] = "st_read"]
               /\ st_receives' = st_receives + 1
          ELSE /\ st_state' = st_state
               /\ cpc' = [cpc EXCEPT ![t] = "st_recv_panicked"]
               /\ st_receives' = st_receives
    /\ UNCHANGED <<ch_in_use, ch_ready, ch_message, st_message, c_got,
                   ch_sends, ch_receives, st_sends>>

(* StateChannel::receive, line 64 : message.assume_init_read() *)
StRead(t) ==
    /\ cpc[t] = "st_read"
    /\ ChanFrame
    /\ c_got' = [c_got EXCEPT ![t] = st_message]
    /\ cpc' = [cpc EXCEPT ![t] = "idle"]
    /\ UNCHANGED <<ch_in_use, ch_ready, ch_message, st_state, st_message,
                   c_left, ch_sends, ch_receives, st_sends, st_receives>>

(* Channel::new, lines 19-25 ; StateChannel::new, lines 29-34 *)
ChanInit ==
    /\ ch_in_use = FALSE
    /\ ch_ready = FALSE
    /\ ch_message = "uninit"
    /\ st_state = "Empty"
    /\ st_message = "uninit"
    /\ cpc = [t \in ChanThreads |-> "idle"]
    /\ c_left = [t \in ChanThreads |-> MaxCalls]
    /\ c_got = [t \in ChanThreads |-> "none"]
    /\ ch_sends = 0
    /\ ch_receives = 0
    /\ st_sends = 0
    /\ st_receives = 0

ChanNext ==
    \E t \in ChanThreads :
        \/ ChSend(t)
        \/ ChWriteBegin(t)
        \/ ChWriteEnd(t)
        \/ ChStoreReady(t)
        \/ ChReceive(t)
        \/ ChRead(t)
        \/ StSend(t)
        \/ StWriteBegin(t)
        \/ StWriteEnd(t)
        \/ StStoreReady(t)
        \/ StReceive(t)
        \/ StRead(t)

InitChannel == ChanInit /\ ArcOff /\ LockOff /\ RwOff

SpecChannel == InitChannel /\ [][ChanNext]_vars

-----------------------------------------------------------------------------
(* Properties of the oneshot channels, checked under SpecChannel.           *)

\* the threads inside send that are writing the message of the Channel
ChWriters == {t \in ChanThreads : cpc[t] \in {"ch_write1", "ch_write2"}}
\* the threads inside send that are writing the message of the StateChannel
StWriters == {t \in ChanThreads : cpc[t] \in {"st_write1", "st_write2"}}

\* C14: on each channel at most one send goes on to write, the first one,
\* and none after a receive took the message; the slot is written only by
\* that send; the channel is made ready only by that send, after its write
\* is complete; every other send panics and leaves the slot as it is.
C14_OnlyFirstSendWrites ==
    /\ [](/\ ch_sends <= 1 /\ st_sends <= 1
          /\ Cardinality(ChWriters) <= 1 /\ Cardinality(StWriters) <= 1)
    /\ [][/\ ch_message' # ch_message =>
                \E t \in ChWriters : cpc'[t] # cpc[t]
          /\ st_message' # st_message =>
                \E t \in StWriters : cpc'[t] # cpc[t]
          /\ (ch_ready' /\ ~ch_ready) =>
                \E t \in ChanThreads : cpc[t] = "ch_store" /\ ch_message = t
          /\ (st_state' = "Ready" /\ st_state # "Ready") =>
                \E t \in ChanThreads : cpc[t] = "st_store" /\ st_message = t
          /\ \A t \in ChanThreads :
                /\ (cpc[t] = "idle" /\ cpc'[t] = "ch_write1") =>
                      ch_sends = 0 /\ ch_receives = 0
                /\ (cpc[t] = "idle" /\ cpc'[t] = "st_write1") =>
                      st_sends = 0 /\ st_receives = 0
                /\ (cpc[t] = "idle" /\ cpc'[t] = "ch_send_panicked") =>
                      ch_sends = 1 /\ ch_message' = ch_message /\ ch_ready' = ch_ready
                /\ (cpc[t] = "idle" /\ cpc'[t] = "st_send_panicked") =>
                      st_sends = 1 /\ st_message' = st_message /\ st_state' = st_state]_vars

\* the message of the Channel was sent and received, and a later send panicked
C14_Witness ==
    /\ ch_sends = 1 /\ ch_receives = 1
    /\ \E t \in ChanThreads : c_got[t] \in ChanThreads /\ cpc[t] = "idle"
    /\ \E t \in ChanThreads : cpc[t] = "ch_send_panicked"

\* C15: on each channel at most one receive goes on to read, only after a
\* send has completed and made the channel ready; it reads a completely
\* written message, while no send is writing; every other receive panics.
C15_ReceiveOnceAfterSend ==
    /\ [](/\ ch_receives <= 1 /\ st_receives <= 1
          /\ ch_receives <= ch_sends /\ st_receives <= st_sends
          /\ \A t \in ChanThreads :
                /\ c_got[t] \in ChanThreads \cup {"none"}
                /\ cpc[t] = "ch_read" => (ch_message \in ChanThreads /\ ChWriters = {})
                /\ cpc[t] = "st_read" => (st_message \in ChanThreads /\ StWriters = {}))
    /\ [][\A t \in ChanThreads :
             /\ (cpc[t] = "idle" /\ cpc'[t] = "ch_read") =>
                   ch_ready /\ ch_receives = 0 /\ ch_message \in ChanThreads
             /\ (cpc[t] = "idle" /\ cpc'[t] = "st_read") =>
                   st_state = "Ready" /\ st_receives = 0 /\ st_message \in ChanThreads
             /\ (cpc[t] = "idle" /\ cpc'[t] = "ch_recv_panicked") => ~ch_ready
             /\ (cpc[t] = "idle" /\ cpc'[t] = "st_recv_panicked") => st_state # "Ready"
             /\ (cpc[t] = "ch_read" /\ cpc'[t] = "idle") => c_got'[t] = ch_message
             /\ (cpc[t] = "st_read" /\ cpc'[t] = "idle") => c_got'[t] = st_message]_vars

\* one receive returned the message sent on the StateChannel, one receive
\* panicked because the message was consumed
C15_Witness ==
    /\ st_receives = 1
    /\ \E t, u \in ChanThreads :
          /\ c_got[t] = u /\ t # u /\ cpc[t] = "idle"
          /\ st_message = u
    /\ \E t \in ChanThreads : cpc[t] = "st_recv_panicked"
    /\ st_state = "Reading"

-----------------------------------------------------------------------------
(* The counters against the handles, checked under SpecArc.                 *)

\* the Arc handles alive, and the Weak handles alive
LiveArcs == TotalArcs + kept_arcs
LiveWeaks == TotalWeaks + kept_weaks
\* the drop of the last Arc is under way: data_ref_count is 0 and the
\* implicit unit of alloc_ref_count is not dropped yet
LastArcDropping == \E t \in ArcThreads : apc[t] \in {"ad_destroy", "ad_weak"}

AbortPending == \E t \in ArcThreads : apc[t] = "aborting"

-----------------------------------------------------------------------------
(* The sentinel of get_mut against downgrade, checked under SpecArcSentinel.    *)

\* the threads inside get_mut between its compare_exchange and its store
InSentinelWindow == {t \in ArcThreads : apc[t] \in {"gm_load", "gm_store"}}

\* while alloc_ref_count is the sentinel no Weak exists, a get_mut is inside
\* its window, and the only step that changes alloc_ref_count is the store
\* of 1 by that get_mut; a get_mut outside the window has put 1 back; a
\* downgrade that completes adds exactly one to a value that is not the
\* sentinel and hands out one Weak
SentinelProtocol ==
    /\ [](/\ alloc_ref_count = USIZE_MAX => LiveWeaks = 0
          /\ alloc_ref_count = USIZE_MAX <=> InSentinelWindow # {}
          /\ Cardinality(InSentinelWindow) <= 1)
    /\ [][/\ alloc_ref_count = USIZE_MAX =>
                \/ alloc_ref_count' = alloc_ref_count
                \/ /\ alloc_ref_count' = 1
                   /\ \E t \in ArcThreads : apc[t] = "gm_store" /\ apc'[t] # "gm_store"
          /\ \A t \in ArcThreads :
                (apc[t] = "dg_loop" /\ apc'[t] = "idle") =>
                   /\ alloc_ref_count # USIZE_MAX
                   /\ alloc_ref_count' = alloc_ref_count + 1
                   /\ weaks'[t] = weaks[t] + 1]_vars
    /\ (alloc_ref_count = USIZE_MAX) ~> (alloc_ref_count = 1)

\* C17 as stated: the sentinel protocol, and every downgrade that has begun
\* completes.
C17_DowngradeCompletes ==
    /\ SentinelProtocol
    /\ \A t \in ArcThreads : (apc[t] = "dg_loop") ~> (apc[t] = "idle")

\* C17 amended: the sentinel protocol, and every downgrade that has begun
\* completes unless alloc_ref_count keeps being changed under it for ever.
C17_DowngradeCompletesIfLeftAlone ==
    /\ SentinelProtocol
    /\ \A t \in ArcThreads :
          \/ []<><<alloc_ref_count' # alloc_ref_count /\ apc[t] = "dg_loop">>_vars
          \/ (apc[t] = "dg_loop") ~> (apc[t] = "idle")

\* a downgrade spins on the sentinel while a get_mut is about to store 1
C17_Witness ==
    /\ alloc_ref_count = USIZE_MAX
    /\ \E t \in ArcThreads : apc[t] = "dg_loop" /\ an[t] = USIZE_MAX
    /\ \E t \in ArcThreads : apc[t] = "gm_store" /\ ~is_unique[t]

=============================================================================
